---- MODULE Spec2Model ----
(***************************************************************************)
(* A model of the PE/COFF reader of lib/Object/COFFObjectFile.cpp and      *)
(* include/llvm/Object/COFF.h.                                             *)
(*                                                                         *)
(* The byte buffer is modelled at the level of the fields the reader       *)
(* extracts from it: the record img holds, for every field the code reads, *)
(* the value the buffer has at the place the code reads it from.  Pointers *)
(* into the buffer are offsets from base(); NULL is the null pointer.      *)
(* The address arithmetic of getObject is done in uintptr_t (64 bits) on   *)
(* base() plus a 32-bit offset and cannot wrap, so offsets are unbounded   *)
(* integers; the arithmetic the code does in uint32_t is done modulo       *)
(* Max32, a 32-bit word scaled to Bits32 bits.                             *)
(***************************************************************************)
EXTENDS Integers, Sequences, FiniteSets, TLC

VARIABLES img, NDEBUG, pc, CurPtr, HasPEHeader, EC, obj, stageErr, ub, ret,
          it, out, held

vars == <<img, NDEBUG, pc, CurPtr, HasPEHeader, EC, obj, stageErr, ub, ret,
          it, out, held>>

ctorVars == <<pc, CurPtr, HasPEHeader, EC, obj, stageErr, ub, ret>>

-----------------------------------------------------------------------------
(* Widths and structure sizes.                                             *)

\* The number of bits of the model's uint32_t.
Bits32 == 10

Max32 == 2 ^ Bits32

\* The null pointer (offsets from base() are >= 0).
NULL == -1

SizeofCoffFileHeader == 20
SizeofPE32Header == 96
SizeofPE32PlusHeader == 112
SizeofDataDirectory == 8
SizeofCoffSection == 40
SizeofCoffSymbol == 18
SizeofImportDirectoryTableEntry == 20
SizeofExportDirectoryTableEntry == 40
SizeofClrHeader == 72
SizeofULittle32 == 4

\* COFF::DataDirectoryIndex
EXPORT_TABLE == 0
IMPORT_TABLE == 1
CLR_RUNTIME_HEADER == 14

IMAGE_SYM_UNDEFINED == 0
IMAGE_SYM_ABSOLUTE == -1
IMAGE_SYM_DEBUG == -2
IMAGE_SYM_CLASS_EXTERNAL == 2
IMAGE_SYM_DTYPE_FUNCTION == 2

PE32Magic == 267
PE32PlusMagic == 523
ImportLibrarySections == 65535
DosStubSize == 68

success == "success"
unexpected_eof == "unexpected_eof"
parse_failed == "parse_failed"

-----------------------------------------------------------------------------
(* The image: what the buffer holds at the places the code reads.          *)

\* Characters are their ASCII codes; a section's Name is its 8 bytes.
\* Of the bits of Characteristics, those the code tests: IMAGE_SCN_MEM_READ,
\* IMAGE_SCN_MEM_WRITE and the alignment field, bits 20 to 23.
Flags(r, w, a) == [MemRead |-> r, MemWrite |-> w, Align |-> a]

NullSection ==
  [Name |-> <<0, 0, 0, 0, 0, 0, 0, 0>>, VirtualAddress |-> 0,
   VirtualSize |-> 0, PointerToRawData |-> 0, SizeOfRawData |-> 0,
   Characteristics |-> Flags(FALSE, FALSE, 0)]

\* The I-th record (1-based) of the section table.
SectionAt(I) ==
  IF I \in 1..Len(img.Sections) THEN img.Sections[I] ELSE NullSection

\* NumberOfAuxSymbols of the record in slot K (0-based) of the symbol table.
AuxAt(K) ==
  IF K + 1 \in 1..Len(img.Symbols) THEN img.Symbols[K + 1] ELSE 0

NullImportEntry == [NameRVA |-> 0, ImportLookupTableRVA |-> 0]

\* The K-th record (0-based) of the import directory table.
ImportAt(K) ==
  IF K + 1 \in 1..Len(img.Imports) THEN img.Imports[K + 1] ELSE NullImportEntry

\* Entry K (0-based) of the export ordinal table and of the export name
\* pointer table.
OrdinalAt(K) ==
  IF K + 1 \in 1..Len(img.Export.Ordinals) THEN img.Export.Ordinals[K + 1]
  ELSE 0

NamePointerAt(K) ==
  IF K + 1 \in 1..Len(img.Export.NamePointers)
  THEN img.Export.NamePointers[K + 1] ELSE 0

\* The (RVA, Size) pair at DataDirectory[Index].
DataDirAt(Index) ==
  IF Index \in DOMAIN img.DataDir THEN img.DataDir[Index]
  ELSE [RelativeVirtualAddress |-> 0, Size |-> 0]

-----------------------------------------------------------------------------
(* The bounds-checked reader.                                              *)

\* checkSize: false (unexpected_eof) if Size is greater than the buffer size.
checkSize(Size) == ~(img.bufSize < Size)

getObjectUnchecked(Ptr, Size) == success

\* getObject: Obj is set unless bytes of [Ptr, Ptr + Size) fall outside.
getObject(Ptr, Size) ==
  IF Ptr + Size > img.bufSize THEN unexpected_eof ELSE success

\* A read of Size bytes at Ptr that the code does without a check of its own
\* lies outside the buffer.
OutOfBuffer(Ptr, Size) == Ptr < 0 \/ Ptr + Size > img.bufSize

-----------------------------------------------------------------------------
(* Queries the constructor itself uses.                                    *)

isImportLibraryNever == FALSE

\* coff_file_header::isImportLibrary
isImportLibrary == img.NumberOfSections = ImportLibrarySections

\* section_end() - section_begin(), in records.
NumSections == IF isImportLibrary THEN 0 ELSE img.NumberOfSections

\* The loop of getRvaPtr from the I-th section on.
RECURSIVE getRvaPtrFrom(_, _)
getRvaPtrFrom(I, Addr) ==
  IF I > NumSections THEN [ec |-> parse_failed, Res |-> 0]
  ELSE LET Section == SectionAt(I)
           SectionStart == Section.VirtualAddress
           SectionEnd ==
             (Section.VirtualAddress + Section.VirtualSize) % Max32
       IN IF SectionStart <= Addr /\ Addr < SectionEnd
          THEN [ec |-> success,
                Res |-> Section.PointerToRawData
                          + ((Addr - SectionStart) % Max32)]
          ELSE getRvaPtrFrom(I + 1, Addr)

\* getRvaPtr: the file offset for the given RVA.
getRvaPtr(Addr) == getRvaPtrFrom(1, Addr)

\* getDataDirectory: which entry is handed out, or parse_failed.
getDataDirectory(o, Index) ==
  IF o.DataDirectory = NULL THEN [ec |-> parse_failed, Res |-> NULL]
  ELSE IF Index > img.NumberOfRvaAndSize
       THEN [ec |-> parse_failed, Res |-> NULL]
       ELSE [ec |-> success,
             Res |-> o.DataDirectory + SizeofDataDirectory * Index]

-----------------------------------------------------------------------------
(* Strings.  A uint32_t or uint64_t that the model must not narrow is a    *)
(* pair of limbs, hi * 2^16 + lo.                                          *)

Limb == 2 ^ 16

U(h, l) == [hi |-> h, lo |-> l]

\* The limbs of a natural number below 2^31.
ToU(v) == U(v \div Limb, v % Limb)

\* Value * 64 + CharVal
Mul64Add(Value, CharVal) ==
  U(Value.hi * 64 + (Value.lo * 64 + CharVal) \div Limb,
    (Value.lo * 64 + CharVal) % Limb)

\* The digit a character of a base-64 entry stands for, -1 if none.
CharValSlash62(c) ==
  IF c >= 65 /\ c <= 90 THEN c - 65
  ELSE IF c >= 97 /\ c <= 122 THEN c - 97 + 26
  ELSE IF c >= 48 /\ c <= 57 THEN c - 48 + 52
  ELSE IF c = 43 \/ c = 47 THEN 62
  ELSE -1

CharVal(c) ==
  IF c >= 65 /\ c <= 90 THEN c - 65
  ELSE IF c >= 97 /\ c <= 122 THEN c - 97 + 26
  ELSE IF c >= 48 /\ c <= 57 THEN c - 48 + 52
  ELSE IF c = 43 THEN 62
  ELSE IF c = 47 THEN 63
  ELSE -1

\* The loop of decodeBase64StringEntry: the value of Str read after Value,
\* or failure at a character that is no digit.
RECURSIVE decodeLoop(_, _)
decodeLoop(Str, Value) ==
  IF Str = <<>> THEN [failed |-> FALSE, Value |-> Value]
  ELSE IF CharVal(Str[1]) = -1 THEN [failed |-> TRUE, Value |-> Value]
  ELSE decodeLoop(Tail(Str), Mul64Add(Value, CharVal(Str[1])))

decodeBase64Zero(Str) == [failed |-> FALSE, Result |-> U(0, 0)]

\* decodeBase64StringEntry where its assertion is compiled out or holds.
decodeBase64StringEntry(Str) ==
  LET r == decodeLoop(Str, U(0, 0))
  IN IF Len(Str) > 6 THEN [failed |-> TRUE, Result |-> U(0, 0)]
     ELSE IF r.failed THEN [failed |-> TRUE, Result |-> U(0, 0)]
     ELSE IF r.Value.hi >= Limb THEN [failed |-> TRUE, Result |-> U(0, 0)]
     ELSE [failed |-> FALSE, Result |-> r.Value]

IsDigit(c) == c >= 48 /\ c <= 57

RECURSIVE DecimalValue(_, _)
DecimalValue(Str, Acc) ==
  IF Str = <<>> THEN Acc
  ELSE DecimalValue(Tail(Str), Acc * 10 + (Str[1] - 48))

\* StringRef::getAsInteger(10, Offset) on at most 7 characters.
getAsInteger(Str) ==
  IF Str = <<>> \/ \E k \in 1..Len(Str) : ~IsDigit(Str[k])
  THEN [failed |-> TRUE, Result |-> U(0, 0)]
  ELSE [failed |-> FALSE, Result |-> ToU(DecimalValue(Str, 0))]

\* The length ::strlen finds in the 8 bytes of a name whose last byte is 0.
RECURSIVE strlen(_)
strlen(Bytes) ==
  IF Bytes = <<>> \/ Bytes[1] = 0 THEN 0 ELSE 1 + strlen(Tail(Bytes))

\* Str.substr(Start), Start counted from 0.
substr(Str, Start) ==
  IF Start >= Len(Str) THEN <<>> ELSE SubSeq(Str, Start + 1, Len(Str))

EmptyString == [kind |-> "empty"]
StringAt(Ptr) == [kind |-> "at", p |-> Ptr]
StringOf(Chars) == [kind |-> "chars", chars |-> Chars]

\* COFFObjectFile::getString
getString(o, Offset) ==
  IF o.StringTableSize <= 4 THEN [ec |-> parse_failed, Res |-> EmptyString]
  ELSE IF Offset.hi > 0 \/ Offset.lo >= o.StringTableSize
  THEN [ec |-> unexpected_eof, Res |-> EmptyString]
  ELSE [ec |-> success, Res |-> StringAt(o.StringTable + Offset.lo)]

\* COFFObjectFile::getSectionName.  Name[0] and Name[1] are the bytes of
\* Sec->Name at those places, also where the name is shorter.
getSectionName(o, Section) ==
  LET Bytes == Section.Name
      Name == IF Bytes[8] = 0 THEN SubSeq(Bytes, 1, strlen(Bytes)) ELSE Bytes
      d == IF Bytes[2] = 47 THEN decodeBase64StringEntry(substr(Name, 2))
           ELSE getAsInteger(substr(Name, 1))
  IN IF Bytes[1] = 47
     THEN IF d.failed THEN [ec |-> parse_failed, Res |-> EmptyString]
          ELSE getString(o, d.Result)
     ELSE [ec |-> success, Res |-> StringOf(Name)]

-----------------------------------------------------------------------------
(* Symbols and their sections.                                             *)

\* COFFObjectFile::getSection
getSection(o, Index) ==
  IF Index = IMAGE_SYM_UNDEFINED \/ Index = IMAGE_SYM_ABSOLUTE
       \/ Index = IMAGE_SYM_DEBUG
  THEN [ec |-> success, Result |-> NULL]
  ELSE IF Index > 0 /\ Index <= img.NumberOfSections
  THEN [ec |-> success,
        Result |-> o.SectionTable + (Index - 1) * SizeofCoffSection]
  ELSE [ec |-> parse_failed, Result |-> NULL]

\* The record of the section table a section pointer refers to.
SectionDeref(o, Ptr) ==
  SectionAt((Ptr - o.SectionTable) \div SizeofCoffSection + 1)

\* coff_symbol::getComplexType
getComplexType(Symb) == (Symb.Type \div 16) % 16

getSymbolTypeDataFirst(o, Symb) ==
  LET Section == getSection(o, Symb.SectionNumber)
      Characteristics ==
        IF Symb.SectionNumber > 0
        THEN SectionDeref(o, Section.Result).Characteristics
        ELSE Flags(FALSE, FALSE, 0)
  IN IF Symb.SectionNumber > 0 /\ Section.ec # success
     THEN [ec |-> Section.ec, Result |-> "ST_Other"]
     ELSE IF Characteristics.MemRead /\ ~Characteristics.MemWrite
     THEN [ec |-> success, Result |-> "ST_Data"]
     ELSE IF getComplexType(Symb) = IMAGE_SYM_DTYPE_FUNCTION
     THEN [ec |-> success, Result |-> "ST_Function"]
     ELSE [ec |-> success, Result |-> "ST_Other"]

\* COFFObjectFile::getSymbolType
getSymbolType(o, Symb) ==
  LET Section == getSection(o, Symb.SectionNumber)
      Characteristics ==
        IF Symb.SectionNumber > 0
        THEN SectionDeref(o, Section.Result).Characteristics
        ELSE Flags(FALSE, FALSE, 0)
  IN IF /\ Symb.StorageClass = IMAGE_SYM_CLASS_EXTERNAL
        /\ Symb.SectionNumber = IMAGE_SYM_UNDEFINED
     THEN [ec |-> success, Result |-> "ST_Unknown"]
     ELSE IF getComplexType(Symb) = IMAGE_SYM_DTYPE_FUNCTION
     THEN [ec |-> success, Result |-> "ST_Function"]
     ELSE IF Symb.SectionNumber > 0 /\ Section.ec # success
     THEN [ec |-> Section.ec, Result |-> "ST_Other"]
     ELSE IF Characteristics.MemRead /\ ~Characteristics.MemWrite
     THEN [ec |-> success, Result |-> "ST_Data"]
     ELSE [ec |-> success, Result |-> "ST_Other"]

UnknownAddressOrSize == [kind |-> "UnknownAddressOrSize"]
SizeOf(n) == [kind |-> "size", v |-> n]

\* COFFObjectFile::getSymbolSize; the difference is one of uint32_t.
getSymbolSize(o, Symb) ==
  LET Section == getSection(o, Symb.SectionNumber)
  IN IF Section.ec # success
     THEN [ec |-> Section.ec, Result |-> SizeOf(0)]
     ELSE IF Symb.SectionNumber = IMAGE_SYM_UNDEFINED
     THEN [ec |-> success, Result |-> UnknownAddressOrSize]
     ELSE IF Section.Result # NULL
     THEN [ec |-> success,
           Result |-> SizeOf((SectionDeref(o, Section.Result).SizeOfRawData
                                - Symb.Value) % Max32)]
     ELSE [ec |-> success, Result |-> SizeOf(0)]

-----------------------------------------------------------------------------
(* CLI method headers.                                                     *)

getMethodSizeFatAsTiny(buff, word, size) ==
  IF buff % 4 >= 2 THEN [ec |-> success, size |-> buff \div 4 + 1]
  ELSE [ec |-> parse_failed, size |-> size]

\* COFFObjectFile::getMethodSize, of the byte buff at method, the int word
\* at method + 4 and the unsigned size the caller passes in.
getMethodSize(buff, word, size) ==
  IF buff % 4 = 2 THEN [ec |-> success, size |-> buff \div 4 + 1]
  ELSE IF buff % 4 = 3 THEN [ec |-> success, size |-> (word + 12) % Max32]
  ELSE [ec |-> parse_failed, size |-> size]

-----------------------------------------------------------------------------
(* The stages of the constructor, each from the object so far to the       *)
(* error code it returns, the object after it, and whether it read         *)
(* outside the buffer.                                                     *)

\* The MetadataHeader of an object without metadata.
NullMetadataHeader == [MetadataInitPtr |-> NULL]

NullObject ==
  [COFFHeader |-> NULL, PE32Header |-> NULL, PE32PlusHeader |-> NULL,
   DataDirectory |-> NULL, SectionTable |-> NULL, SymbolTable |-> NULL,
   StringTable |-> NULL, StringTableSize |-> 0, ImportDirectory |-> NULL,
   NumberOfImportDirectory |-> 0, ExportDirectory |-> NULL,
   CLRHeader |-> NULL, MetadataHeader |-> NullMetadataHeader]

initSymbolTablePtr(o) ==
  LET SymAddr == img.PointerToSymbolTable
      SymSize == img.NumberOfSymbols * SizeofCoffSymbol
      StringTableAddr == SymAddr + SymSize
      o1 == [o EXCEPT !.SymbolTable = SymAddr]
      Size == img.StrTabSize
      o2 == [o1 EXCEPT !.StringTableSize = Size,
                       !.StringTable = StringTableAddr]
      o3 == [o2 EXCEPT !.StringTableSize = IF Size < 4 THEN 4 ELSE Size]
  IN IF getObject(SymAddr, SymSize) # success
     THEN [ec |-> unexpected_eof, obj |-> o, ub |-> FALSE]
     ELSE IF getObject(StringTableAddr, SizeofULittle32) # success
     THEN [ec |-> unexpected_eof, obj |-> o1, ub |-> FALSE]
     ELSE IF getObject(StringTableAddr, Size) # success
     THEN [ec |-> unexpected_eof,
           obj |-> [o1 EXCEPT !.StringTableSize = Size], ub |-> FALSE]
     ELSE IF o3.StringTableSize > 4 /\ ~img.StrTabLastNul
     THEN [ec |-> parse_failed, obj |-> o3, ub |-> FALSE]
     ELSE [ec |-> success, obj |-> o3, ub |-> FALSE]

initImportTablePtr(o) ==
  LET DataEntry == getDataDirectory(o, IMPORT_TABLE)
      Entry == DataDirAt(IMPORT_TABLE)
      wild == OutOfBuffer(DataEntry.Res, SizeofDataDirectory)
      ImportTableRva == Entry.RelativeVirtualAddress
      o1 == [o EXCEPT !.NumberOfImportDirectory =
                         Entry.Size \div SizeofImportDirectoryTableEntry]
      IntPtr == getRvaPtr(ImportTableRva)
  IN IF DataEntry.ec # success
     THEN [ec |-> success, obj |-> o, ub |-> FALSE]
     ELSE IF Entry.RelativeVirtualAddress = 0
     THEN [ec |-> success, obj |-> o, ub |-> wild]
     ELSE IF IntPtr.ec # success
     THEN [ec |-> IntPtr.ec, obj |-> o1, ub |-> wild]
     ELSE [ec |-> success,
           obj |-> [o1 EXCEPT !.ImportDirectory = IntPtr.Res], ub |-> wild]

initExportTablePtr(o) ==
  LET DataEntry == getDataDirectory(o, EXPORT_TABLE)
      Entry == DataDirAt(EXPORT_TABLE)
      wild == OutOfBuffer(DataEntry.Res, SizeofDataDirectory)
      IntPtr == getRvaPtr(Entry.RelativeVirtualAddress)
  IN IF DataEntry.ec # success
     THEN [ec |-> success, obj |-> o, ub |-> FALSE]
     ELSE IF Entry.RelativeVirtualAddress = 0
     THEN [ec |-> success, obj |-> o, ub |-> wild]
     ELSE IF IntPtr.ec # success
     THEN [ec |-> IntPtr.ec, obj |-> o, ub |-> wild]
     ELSE [ec |-> success,
           obj |-> [o EXCEPT !.ExportDirectory = IntPtr.Res], ub |-> wild]

(* CLI metadata.  The root, its stream headers and the header of the #~    *)
(* stream are read through a cursor, MetadataIntPtr, with no check against *)
(* the buffer.                                                             *)

fixsizeNone(versionsize) == versionsize

\* fixsize: the next multiple of 4, found by counting up.
RECURSIVE fixsize(_)
fixsize(versionsize) ==
  IF versionsize % 4 = 0 THEN versionsize ELSE fixsize(versionsize + 1)

\* countbits.  A bit vector is the set of the places of its 1 bits.
countbits(bitvector) == Cardinality(bitvector \cap 0..63)

\* "#~"
TablesStreamName == <<35, 126>>

\* The stream header the cursor finds in the i-th round (0-based) of the
\* loop of initMetadataPtr; name is the text before its NUL.
StreamAt(i) ==
  IF i + 1 \in 1..Len(img.Meta.StreamHeaders)
  THEN img.Meta.StreamHeaders[i + 1]
  ELSE [offset |-> 0, size |-> 0, name |-> <<>>]

\* The i-th (0-based) 32-bit word after the Sorted bitmap.
RowAt(i) ==
  IF i + 1 \in 1..Len(img.Meta.Rows) THEN img.Meta.Rows[i + 1] ELSE 0

\* The tables setupTablePointers records, those it asserts not to be
\* there, and sizeof of the records of the former.
SupportedTables == {0, 1, 2, 6, 10, 17, 35}

AssertedTables ==
  {4, 8, 9} \cup (11..16) \cup {18, 20, 21} \cup (23..29) \cup {32, 33, 34}
    \cup (36..44)

RecordSize(k) ==
  CASE k = 0 -> 10
    [] k = 1 -> 6
    [] k = 2 -> 14
    [] k = 6 -> 14
    [] k = 10 -> 6
    [] k = 17 -> 2
    [] k = 35 -> 20

\* clrTablePtr after calloc: no pointer and no rows for any table.
NullTablePtr == [k \in SupportedTables |-> [ptr |-> NULL, size |-> 0]]

\* The if statements of setupTablePointers from the one for bit k on; table
\* is the index into rows.  An assert is compiled in unless NDEBUG.
RECURSIVE setupTablePointersFrom(_, _, _, _, _, _)
setupTablePointersFrom(k, MetadataIntPtr, table, Valid, rows, ptr) ==
  IF k > 44 THEN [aborted |-> FALSE, tablePtr |-> ptr]
  ELSE IF k \notin Valid
  THEN setupTablePointersFrom(k + 1, MetadataIntPtr, table, Valid, rows, ptr)
  ELSE IF k \in SupportedTables
  THEN setupTablePointersFrom(
         k + 1, MetadataIntPtr + RecordSize(k) * rows[table + 1], table + 1,
         Valid, rows,
         [ptr EXCEPT ![k] = [ptr |-> MetadataIntPtr,
                             size |-> rows[table + 1]]])
  ELSE IF k \in AssertedTables /\ ~NDEBUG
  THEN [aborted |-> TRUE, tablePtr |-> ptr]
  ELSE setupTablePointersFrom(k + 1, MetadataIntPtr, table, Valid, rows, ptr)

setupTablePointers(MetadataIntPtr, Valid, rows) ==
  setupTablePointersFrom(0, MetadataIntPtr, 0, Valid, rows, NullTablePtr)

\* clrmeta_tables_head after calloc.
NullMetaTables == [Valid |-> {}, Rows |-> <<>>, tablePtr |-> NullTablePtr]

\* The first stream header named "#~" from the i-th on, NULL if none.
RECURSIVE FindTablesStream(_, _)
FindTablesStream(i, StreamHeaders) ==
  IF ~(i < Len(StreamHeaders)) THEN NULL
  ELSE IF StreamAt(i).name = TablesStreamName THEN i
  ELSE FindTablesStream(i + 1, StreamHeaders)

\* initMetadataTablesSetup: the tables header, whether setupTablePointers
\* aborted, and whether bytes outside the buffer were read.
initMetadataTablesSetup(MetadataInitPtr, StreamHeaders) ==
  LET i == FindTablesStream(0, StreamHeaders)
      MetadataIntPtr ==
        IF i = NULL THEN MetadataInitPtr
        ELSE MetadataInitPtr + StreamHeaders[i + 1].offset
      Valid == img.Meta.Valid
      tables == countbits(Valid)
      Rows == [n \in 1..tables |-> RowAt(n - 1)]
      t == setupTablePointers(MetadataIntPtr + 24 + 4 * tables, Valid, Rows)
  IN IF MetadataIntPtr = MetadataInitPtr
     THEN [MetaTables |-> NullMetaTables, aborted |-> FALSE, ub |-> FALSE]
     ELSE [MetaTables |-> [Valid |-> Valid, Rows |-> Rows,
                           tablePtr |-> t.tablePtr],
           aborted |-> t.aborted,
           ub |-> OutOfBuffer(MetadataIntPtr + 4, 20 + 4 * tables)]

\* The loop of initMetadataPtr over the stream headers, from its i-th
\* round on.
RECURSIVE readStreamHeaders(_, _, _, _)
readStreamHeaders(i, MetadataIntPtr, Headers, wild) ==
  IF ~(i < img.Meta.Streams)
  THEN [StreamHeaders |-> Headers, MetadataIntPtr |-> MetadataIntPtr,
        ub |-> wild]
  ELSE readStreamHeaders(
         i + 1,
         MetadataIntPtr + 8 + fixsize(Len(StreamAt(i).name) + 1),
         Append(Headers, [offset |-> StreamAt(i).offset,
                          size |-> StreamAt(i).size,
                          name |-> MetadataIntPtr + 8]),
         wild \/ OutOfBuffer(MetadataIntPtr,
                             8 + Len(StreamAt(i).name) + 1))

\* initMetadataPtr: the clrmeta_header it allocates and fills.
initMetadataPtr(MetadataIntPtr) ==
  LET strsize == fixsize(img.Meta.Length)
      Version == MetadataIntPtr + 16
      h == readStreamHeaders(0, Version + strsize + 4, <<>>,
                             \/ OutOfBuffer(MetadataIntPtr, 4)
                             \/ OutOfBuffer(MetadataIntPtr + 12, 2)
                             \/ OutOfBuffer(Version + strsize, 4))
      t == initMetadataTablesSetup(MetadataIntPtr, h.StreamHeaders)
  IN [MH |-> [MetadataInitPtr |-> MetadataIntPtr,
              Length |-> img.Meta.Length,
              Version |-> Version,
              Streams |-> img.Meta.Streams,
              StreamHeaders |-> h.StreamHeaders,
              MetaTables |-> t.MetaTables],
      aborted |-> t.aborted,
      ub |-> (h.ub \/ t.ub)]

initCLRHeaderPtr(o) ==
  LET DataEntry == getDataDirectory(o, CLR_RUNTIME_HEADER)
      Entry == DataDirAt(CLR_RUNTIME_HEADER)
      wild == OutOfBuffer(DataEntry.Res, SizeofDataDirectory)
      IntPtr == getRvaPtr(Entry.RelativeVirtualAddress)
      o1 == [o EXCEPT !.CLRHeader = IntPtr.Res]
      wild1 == wild \/ OutOfBuffer(IntPtr.Res, SizeofClrHeader)
      MetadataRva == img.MetadataRVA
      MetadataIntPtr == getRvaPtr(MetadataRva)
      m == initMetadataPtr(MetadataIntPtr.Res)
  IN IF DataEntry.ec # success
     THEN [ec |-> success, obj |-> o, ub |-> FALSE, aborted |-> FALSE]
     ELSE IF Entry.RelativeVirtualAddress = 0
     THEN [ec |-> success, obj |-> o, ub |-> wild, aborted |-> FALSE]
     ELSE IF IntPtr.ec # success
     THEN [ec |-> IntPtr.ec, obj |-> o, ub |-> wild, aborted |-> FALSE]
     ELSE IF MetadataRva = 0
     THEN [ec |-> success, obj |-> o1, ub |-> wild1, aborted |-> FALSE]
     ELSE IF MetadataIntPtr.ec # success
     THEN [ec |-> MetadataIntPtr.ec, obj |-> o1, ub |-> wild1,
           aborted |-> FALSE]
     ELSE [ec |-> success, obj |-> [o1 EXCEPT !.MetadataHeader = m.MH],
           ub |-> wild1 \/ m.ub, aborted |-> m.aborted]

-----------------------------------------------------------------------------
(* The constructor, COFFObjectFile::COFFObjectFile, stage by stage, and    *)
(* ObjectFile::createCOFFObjectFile, which hands its result to the caller. *)

\* What a read outside the buffer may do besides yielding a value.
Crashes(wild) == IF wild THEN BOOLEAN ELSE {FALSE}

StagePcNoReturn(e, next) == next

StagePcOnEofOnly(e, next) ==
  IF e = unexpected_eof THEN "ctorReturn" ELSE next

\* if ((EC = stage())) return;
StagePc(e, next) == IF e # success THEN "ctorReturn" ELSE next

\* The first error a stage returned.
FirstErr(e) == IF stageErr = success THEN e ELSE stageErr

CtorCheckSize ==
  /\ pc = "checkSize"
  /\ LET e == IF checkSize(SizeofCoffFileHeader) THEN success
              ELSE unexpected_eof
     IN /\ EC' = e
        /\ stageErr' = FirstErr(e)
        /\ pc' = StagePc(e, "locatePE")
  /\ UNCHANGED <<img, NDEBUG, held, CurPtr, HasPEHeader, obj, ub, ret, it, out>>

CtorLocatePE ==
  /\ pc = "locatePE"
  /\ IF ~img.MZ
     THEN /\ pc' = "coffHeader"
          /\ UNCHANGED <<CurPtr, HasPEHeader, EC, stageErr, ub>>
     ELSE IF ~checkSize(DosStubSize)
     THEN /\ EC' = unexpected_eof
          /\ stageErr' = FirstErr(unexpected_eof)
          /\ pc' = StagePc(unexpected_eof, "coffHeader")
          /\ UNCHANGED <<CurPtr, HasPEHeader, ub>>
     ELSE LET wild == OutOfBuffer(img.NewExeOff, 4)
          IN \E crash \in Crashes(wild) :
             \E match \in (IF wild THEN BOOLEAN ELSE {img.PESig}) :
               /\ ub' = (ub \/ wild)
               /\ IF crash
                  THEN /\ pc' = "crashed"
                       /\ CurPtr' = img.NewExeOff
                       /\ UNCHANGED <<HasPEHeader, EC, stageErr>>
                  ELSE IF ~match
                  THEN /\ EC' = parse_failed
                       /\ stageErr' = FirstErr(parse_failed)
                       /\ pc' = StagePc(parse_failed, "coffHeader")
                       /\ CurPtr' = img.NewExeOff
                       /\ UNCHANGED HasPEHeader
                  ELSE /\ CurPtr' = img.NewExeOff + 4
                       /\ HasPEHeader' = TRUE
                       /\ pc' = "coffHeader"
                       /\ UNCHANGED <<EC, stageErr>>
  /\ UNCHANGED <<img, NDEBUG, held, obj, ret, it, out>>

CtorCOFFHeader ==
  /\ pc = "coffHeader"
  /\ LET e == getObject(CurPtr, SizeofCoffFileHeader)
     IN /\ EC' = e
        /\ stageErr' = FirstErr(e)
        /\ pc' = StagePc(e, IF HasPEHeader THEN "optHeader"
                            ELSE "sectionTable")
        /\ obj' = IF e = success THEN [obj EXCEPT !.COFFHeader = CurPtr]
                  ELSE obj
        /\ CurPtr' = IF e = success THEN CurPtr + SizeofCoffFileHeader
                     ELSE CurPtr
  /\ UNCHANGED <<img, NDEBUG, held, HasPEHeader, ub, ret, it, out>>

\* The optional header and the data directory array (HasPEHeader).
CtorOptionalHeader ==
  /\ pc = "optHeader"
  /\ IF getObject(CurPtr, SizeofPE32Header) # success
     THEN /\ EC' = unexpected_eof
          /\ stageErr' = FirstErr(unexpected_eof)
          /\ pc' = StagePc(unexpected_eof, "sectionTable")
          /\ UNCHANGED <<obj, CurPtr, ub>>
     ELSE IF img.Magic = PE32Magic
     THEN LET DataDirAddr == CurPtr + SizeofPE32Header
              DataDirSize == SizeofDataDirectory * img.NumberOfRvaAndSize
              e == getObject(DataDirAddr, DataDirSize)
          IN /\ EC' = e
             /\ stageErr' = FirstErr(e)
             /\ pc' = StagePc(e, "sectionTable")
             /\ obj' = [obj EXCEPT
                          !.PE32Header = CurPtr,
                          !.DataDirectory =
                             IF e = success THEN DataDirAddr ELSE @]
             /\ CurPtr' = IF e = success
                          THEN CurPtr + img.SizeOfOptionalHeader
                          ELSE CurPtr
             /\ UNCHANGED ub
     ELSE IF img.Magic = PE32PlusMagic
     THEN LET DataDirAddr == CurPtr + SizeofPE32PlusHeader
              DataDirSize == SizeofDataDirectory * img.NumberOfRvaAndSize
              e == getObject(DataDirAddr, DataDirSize)
              wild == OutOfBuffer(CurPtr, SizeofPE32PlusHeader)
          IN \E crash \in Crashes(wild) :
             /\ ub' = (ub \/ wild)
             /\ IF crash
                THEN /\ pc' = "crashed"
                     /\ obj' = [obj EXCEPT !.PE32PlusHeader = CurPtr]
                     /\ UNCHANGED <<EC, stageErr, CurPtr>>
                ELSE /\ EC' = e
                     /\ stageErr' = FirstErr(e)
                     /\ pc' = StagePc(e, "sectionTable")
                     /\ obj' = [obj EXCEPT
                                  !.PE32PlusHeader = CurPtr,
                                  !.DataDirectory =
                                     IF e = success THEN DataDirAddr ELSE @]
                     /\ CurPtr' = IF e = success
                                  THEN CurPtr + img.SizeOfOptionalHeader
                                  ELSE CurPtr
     ELSE /\ EC' = parse_failed
          /\ stageErr' = FirstErr(parse_failed)
          /\ pc' = StagePc(parse_failed, "sectionTable")
          /\ UNCHANGED <<obj, CurPtr, ub>>
  /\ UNCHANGED <<img, NDEBUG, held, HasPEHeader, ret, it, out>>

\* An import library is done here; otherwise the section table is mapped.
CtorSectionTable ==
  /\ pc = "sectionTable"
  /\ IF isImportLibrary
     THEN /\ pc' = "ctorReturn"
          /\ UNCHANGED <<EC, stageErr, obj>>
     ELSE LET e == getObject(CurPtr,
                             img.NumberOfSections * SizeofCoffSection)
          IN /\ EC' = e
             /\ stageErr' = FirstErr(e)
             /\ pc' = StagePc(e, "symbolTable")
             /\ obj' = IF e = success
                       THEN [obj EXCEPT !.SectionTable = CurPtr] ELSE obj
  /\ UNCHANGED <<img, NDEBUG, held, CurPtr, HasPEHeader, ub, ret, it, out>>

CtorSymbolTable ==
  /\ pc = "symbolTable"
  /\ IF img.PointerToSymbolTable # 0
     THEN LET r == initSymbolTablePtr(obj)
          IN /\ EC' = r.ec
             /\ stageErr' = FirstErr(r.ec)
             /\ pc' = StagePc(r.ec, "importTable")
             /\ obj' = r.obj
     ELSE /\ pc' = "importTable"
          /\ UNCHANGED <<EC, stageErr, obj>>
  /\ UNCHANGED <<img, NDEBUG, held, CurPtr, HasPEHeader, ub, ret, it, out>>

\* if ((EC = init(obj))) return;  with a stage that reads through pointers
\* it did not check.
RunStage(r, next) ==
  \E crash \in Crashes(r.ub) :
    /\ ub' = (ub \/ r.ub)
    /\ obj' = r.obj
    /\ IF crash
       THEN /\ pc' = "crashed"
            /\ UNCHANGED <<EC, stageErr>>
       ELSE /\ EC' = r.ec
            /\ stageErr' = FirstErr(r.ec)
            /\ pc' = StagePc(r.ec, next)

CtorImportTable ==
  /\ pc = "importTable"
  /\ RunStage(initImportTablePtr(obj), "exportTable")
  /\ UNCHANGED <<img, NDEBUG, held, CurPtr, HasPEHeader, ret, it, out>>

CtorExportTable ==
  /\ pc = "exportTable"
  /\ RunStage(initExportTablePtr(obj), "clrHeader")
  /\ UNCHANGED <<img, NDEBUG, held, CurPtr, HasPEHeader, ret, it, out>>

\* The last stage, in which an assert of setupTablePointers may abort.
CtorCLRHeader ==
  /\ pc = "clrHeader"
  /\ LET r == initCLRHeaderPtr(obj)
     IN \/ /\ ~r.aborted
           /\ RunStage(r, "ctorSuccess")
        \/ /\ r.aborted
           /\ \E crash \in Crashes(r.ub) :
                /\ ub' = (ub \/ r.ub)
                /\ pc' = IF crash THEN "crashed" ELSE "fatal"
                /\ UNCHANGED <<obj, EC, stageErr>>
  /\ UNCHANGED <<img, NDEBUG, held, CurPtr, HasPEHeader, ret, it, out>>

\* EC = object_error::success; at the end of the constructor.
CtorSuccess ==
  /\ pc = "ctorSuccess"
  /\ EC' = success
  /\ pc' = "ctorReturn"
  /\ UNCHANGED <<img, NDEBUG, held, CurPtr, HasPEHeader, obj, stageErr, ub, ret,
                 it, out>>

\* createCOFFObjectFile: the error, or the object.
createCOFFObjectFile ==
  /\ pc = "ctorReturn"
  /\ ret' = IF EC # success THEN EC ELSE "image"
  /\ pc' = "done"
  /\ UNCHANGED <<img, NDEBUG, held, CurPtr, HasPEHeader, EC, obj, stageErr, ub,
                 it, out>>

Construct ==
  \/ CtorCheckSize
  \/ CtorLocatePE
  \/ CtorCOFFHeader
  \/ CtorOptionalHeader
  \/ CtorSectionTable
  \/ CtorSymbolTable
  \/ CtorImportTable
  \/ CtorExportTable
  \/ CtorCLRHeader
  \/ CtorSuccess
  \/ createCOFFObjectFile

\* The state in which createCOFFObjectFile is entered on the buffer img.
CtorInit ==
  /\ pc = "checkSize"
  /\ CurPtr = 0
  /\ HasPEHeader = FALSE
  /\ EC = success
  /\ obj = NullObject
  /\ stageErr = success
  /\ ub = FALSE
  /\ ret = "none"

\* The caller holds an object.
Constructed == pc = "done" /\ ret = "image"

-----------------------------------------------------------------------------
(* Queries on a constructed object.  it is the iterator the caller holds,  *)
(* out the result of the last query.                                       *)

NoIterator == [op |-> "none"]
NoResult == [op |-> "none"]

\* The caller holds the object and has asked nothing of it yet: a caller
\* is followed through one query or one iteration.
Idle == Constructed /\ it = NoIterator /\ out = NoResult

\* The RVAs and export indexes the caller asks for.
Rvas == {0, 4, 16, 30, 143, 144, 160, Max32 - 8, Max32 - 4, Max32 - 1}

QueryGetRvaPtr ==
  /\ Idle
  /\ \E Addr \in Rvas :
       LET r == getRvaPtr(Addr)
       IN out' = [op |-> "getRvaPtr", Addr |-> Addr, ec |-> r.ec,
                  Res |-> r.Res]
  /\ UNCHANGED <<img, NDEBUG, held, it>>
  /\ UNCHANGED ctorVars

QueryGetSectionName ==
  /\ Idle
  /\ \E I \in 1..NumSections :
       LET r == getSectionName(obj, SectionAt(I))
       IN out' = [op |-> "getSectionName", Sec |-> I, ec |-> r.ec,
                  Res |-> r.Res]
  /\ UNCHANGED <<img, NDEBUG, held, it>>
  /\ UNCHANGED ctorVars

\* The virtual addresses the caller asks for, of 64 bits.
Vas == {0, 16, 64, 80, 100, 208, Max32 + 16, Max32 + 80}

\* COFFObjectFile::getVaPtr on a build with or without assertions: how the
\* call may end.
getVaPtr(o, Addr) ==
  LET \* Reading ImageBase through a null header pointer yields any value,
      \* if the read returns.
      ImageBases ==
        IF o.PE32Header = NULL /\ o.PE32PlusHeader = NULL
        THEN {0, 64} ELSE {img.ImageBase}
      Returned(ImageBase) ==
        LET Rva == (Addr - ImageBase) % (Max32 * Max32)
            r == getRvaPtr(Rva % Max32)
        IN IF ~NDEBUG /\ ~(Rva <= Max32 - 1)
           THEN [outcome |-> "aborted"]
           ELSE [outcome |-> "returned", ec |-> r.ec, Res |-> r.Res]
  IN { Returned(b) : b \in ImageBases }
       \cup { [outcome |-> "crashed"] :
                c \in Crashes(o.PE32Header = NULL
                                /\ o.PE32PlusHeader = NULL) \ {FALSE} }

QueryGetVaPtr ==
  /\ Idle
  /\ \E Addr \in Vas :
     \E r \in getVaPtr(obj, Addr) :
       out' = [op |-> "getVaPtr", Addr |-> Addr, r |-> r]
  /\ UNCHANGED <<img, NDEBUG, held, it>>
  /\ UNCHANGED ctorVars

\* The indexes the caller asks getDataDirectory for.
DirectoryIndexes == {0, 1, 2, 14, 15, 16, 17, 100}

QueryGetDataDirectory ==
  /\ Idle
  /\ \E Index \in DirectoryIndexes :
       LET r == getDataDirectory(obj, Index)
       IN out' = [op |-> "getDataDirectory", Index |-> Index, ec |-> r.ec,
                  Res |-> r.Res]
  /\ UNCHANGED <<img, NDEBUG, held, it>>
  /\ UNCHANGED ctorVars

(* Sections. *)

NoContents == [start |-> NULL, size |-> 0]

\* COFFObjectFile::getSectionContents; ConStart and ConEnd are uintptr_t.
getSectionContents(Sec) ==
  LET ConStart == Sec.PointerToRawData
      ConEnd == ConStart + Sec.SizeOfRawData
  IN IF ConEnd > img.bufSize THEN [ec |-> parse_failed, Res |-> NoContents]
     ELSE [ec |-> success,
           Res |-> [start |-> ConStart, size |-> Sec.SizeOfRawData]]

QueryGetSectionContents ==
  /\ Idle
  /\ \E I \in 1..NumSections :
       LET r == getSectionContents(SectionAt(I))
       IN out' = [op |-> "getSectionContents", Sec |-> I, ec |-> r.ec,
                  Res |-> r.Res]
  /\ UNCHANGED <<img, NDEBUG, held, it>>
  /\ UNCHANGED ctorVars

\* toSec's check, compiled in unless NDEBUG: the pointer refers to a record
\* of the section table.  A null pointer is address 0, below every other.
toSecOK(p) ==
  IF obj.SectionTable = NULL
  THEN ~(p # NULL \/ img.NumberOfSections = 0)
  ELSE ~(p < obj.SectionTable
         \/ p >= obj.SectionTable + img.NumberOfSections * SizeofCoffSection)

\* The value uint64_t(1) << e; pow2 = FALSE stands for the value 0.
Pow2(e) == [pow2 |-> TRUE, exp |-> e]

\* What a shift of a uint64_t by 4294967295 places may leave: the count is
\* taken modulo 64 by the shift instruction, or every bit is shifted out.
ShiftOutOfRange == {Pow2(63), [pow2 |-> FALSE, exp |-> 0]}

\* COFFObjectFile::getSectionAlignment.  The shift count is computed in
\* uint32_t, so an alignment field of 0 gives a count of 4294967295, which
\* is undefined for a uint64_t.
getSectionAlignment(Sec) ==
  IF Sec = NULL
  THEN {[ec |-> parse_failed, Res |-> [pow2 |-> FALSE, exp |-> 0],
         defined |-> TRUE]}
  ELSE LET f == SectionDeref(obj, Sec).Characteristics.Align
       IN IF f - 1 \in 0..63
          THEN {[ec |-> success, Res |-> Pow2(f - 1), defined |-> TRUE]}
          ELSE { [ec |-> success, Res |-> v, defined |-> FALSE] :
                   v \in ShiftOutOfRange }

\* The section references a caller holds: those of an iteration from
\* section_begin() to section_end(), and an empty DataRefImpl.
SectionRefs ==
  {NULL} \cup { obj.SectionTable + (I - 1) * SizeofCoffSection :
                  I \in 1..NumSections }

QueryGetSectionAlignment ==
  /\ Idle
  /\ \E Ref \in SectionRefs :
       IF ~NDEBUG /\ ~toSecOK(Ref)
       THEN it' = [op |-> "fatal"] /\ UNCHANGED out
       ELSE /\ \E r \in getSectionAlignment(Ref) :
                 out' = [op |-> "getSectionAlignment", Ref |-> Ref,
                         ec |-> r.ec, Res |-> r.Res, defined |-> r.defined]
            /\ UNCHANGED it
  /\ UNCHANGED <<img, NDEBUG, held>>
  /\ UNCHANGED ctorVars

section_begin == obj.SectionTable

section_end == obj.SectionTable + NumSections * SizeofCoffSection

(* Symbols. *)

\* The section numbers a caller asks for: the sentinels, the numbers around
\* the section table, and those around NumberOfSections of an import library.
SectionIndexes ==
  (-3..5)
    \cup {ImportLibrarySections - 1, ImportLibrarySections,
          ImportLibrarySections + 1}

QueryGetSection ==
  /\ Idle
  /\ \E Index \in SectionIndexes :
       LET r == getSection(obj, Index)
       IN out' = [op |-> "getSection", Index |-> Index, ec |-> r.ec,
                  Result |-> r.Result]
  /\ UNCHANGED <<img, NDEBUG, held, it>>
  /\ UNCHANGED ctorVars

(* Strings. *)

\* The string-table offsets a caller asks for: in the length prefix, at the
\* first string, around the sizes of the tables, and one beyond 16 bits.
StringOffsets ==
  { ToU(v) : v \in {0, 3, 4, 7, 8, 19, 20, 70} } \cup {U(1, 5)}

QueryGetString ==
  /\ Idle
  /\ \E Offset \in StringOffsets :
       LET r == getString(obj, Offset)
       IN out' = [op |-> "getString", Offset |-> Offset, ec |-> r.ec,
                  Res |-> r.Res]
  /\ UNCHANGED <<img, NDEBUG, held, it>>
  /\ UNCHANGED ctorVars

\* A query about the first symbol of the table.
QueryGetSymbolType ==
  /\ Idle
  /\ obj.SymbolTable # NULL /\ img.NumberOfSymbols > 0
  /\ LET r == getSymbolType(obj, img.Sym)
     IN out' = [op |-> "getSymbolType", ec |-> r.ec, Result |-> r.Result]
  /\ UNCHANGED <<img, NDEBUG, held, it>>
  /\ UNCHANGED ctorVars

QueryGetSymbolSize ==
  /\ Idle
  /\ obj.SymbolTable # NULL /\ img.NumberOfSymbols > 0
  /\ LET r == getSymbolSize(obj, img.Sym)
     IN out' = [op |-> "getSymbolSize", ec |-> r.ec, Result |-> r.Result]
  /\ UNCHANGED <<img, NDEBUG, held, it>>
  /\ UNCHANGED ctorVars

symbol_begin_impl == obj.SymbolTable

\* The symbol table ends where the string table begins.
symbol_end_impl == obj.StringTable

\* The slot of the symbol table a symbol pointer refers to.
SymbolSlot(p) == (p - obj.SymbolTable) \div SizeofCoffSymbol

\* toSymb's check, compiled in unless NDEBUG: the pointer refers to a record
\* of the symbol table.
toSymbOK(p) ==
  ~(p < img.PointerToSymbolTable
    \/ p >= img.PointerToSymbolTable
              + img.NumberOfSymbols * SizeofCoffSymbol)

\* What Symb->NumberOfAuxSymbols may read at p.
AuxRead(p) ==
  IF SymbolSlot(p) < img.NumberOfSymbols THEN {AuxAt(SymbolSlot(p))}
  ELSE 0..1

\* How far past the end of the table an iteration is followed.
MaxOvershoot == 2

SymbolBegin ==
  /\ Idle
  /\ it' = [op |-> "sym", p |-> symbol_begin_impl, from |-> NULL, aux |-> 0]
  /\ out' = NoResult
  /\ UNCHANGED <<img, NDEBUG, held>>
  /\ UNCHANGED ctorVars

\* Symb += 1 + Symb->NumberOfAuxSymbols;
moveSymbolNext(p, n) == p + SizeofCoffSymbol * (1 + n)

\* for (I = symbol_begin(); I != symbol_end(); ++I)
MoveSymbolNext ==
  /\ it.op = "sym"
  /\ it.p # symbol_end_impl
  /\ SymbolSlot(it.p) <= img.NumberOfSymbols + MaxOvershoot
  /\ IF ~NDEBUG /\ ~toSymbOK(it.p)
     THEN it' = [op |-> "fatal"]
     ELSE \E n \in AuxRead(it.p) :
          \E crash \in Crashes(OutOfBuffer(it.p, SizeofCoffSymbol)) :
            it' = IF crash THEN [op |-> "crashed"]
                  ELSE [op |-> "sym", p |-> moveSymbolNext(it.p, n),
                        from |-> it.p, aux |-> n]
  /\ UNCHANGED <<img, NDEBUG, held, out>>
  /\ UNCHANGED ctorVars

(* The import directory. *)

ImportRef(Table, I) == [op |-> "imp", ImportTable |-> Table, Index |-> I]

import_directory_begin == ImportRef(obj.ImportDirectory, 0)

import_directory_end ==
  ImportRef(obj.ImportDirectory, obj.NumberOfImportDirectory)

ImportEqTableOnly(a, b) == a.ImportTable = b.ImportTable

\* ImportDirectoryEntryRef::operator==
ImportEq(a, b) == a.ImportTable = b.ImportTable /\ a.Index = b.Index

\* The record of the import directory table that *ImportTable is.
ImportTableDeref(ref) ==
  ImportAt((ref.ImportTable - obj.ImportDirectory)
             \div SizeofImportDirectoryTableEntry)

ImportBegin ==
  /\ Idle
  /\ it' = import_directory_begin
  /\ out' = NoResult
  /\ UNCHANGED <<img, NDEBUG, held>>
  /\ UNCHANGED ctorVars

\* ImportDirectoryEntryRef::moveNext
ImportMoveNextRef(ref) == [ref EXCEPT !.Index = @ + 1]

ImportMoveNextShared ==
  /\ it.op = "imp"
  /\ ~ImportEq(it, import_directory_end)
  /\ it' = ImportMoveNextRef(it)
  /\ held' = IF held.op = "imp" THEN ImportMoveNextRef(held) ELSE held
  /\ out' = NoResult
  /\ UNCHANGED <<img, NDEBUG>>
  /\ UNCHANGED ctorVars

\* for (I = import_directory_begin(); I != import_directory_end(); ++I)
ImportMoveNext ==
  /\ it.op = "imp"
  /\ ~ImportEq(it, import_directory_end)
  /\ it' = ImportMoveNextRef(it)
  /\ out' = NoResult
  /\ UNCHANGED <<img, NDEBUG, held>>
  /\ UNCHANGED ctorVars

\* ImportDirectoryEntryRef::getName
ImportGetName ==
  /\ it.op = "imp"
  /\ ~ImportEq(it, import_directory_end)
  /\ LET r == getRvaPtr(ImportTableDeref(it).NameRVA)
     IN out' = [op |-> "getName", Index |-> it.Index, ec |-> r.ec,
                Res |-> r.Res]
  /\ UNCHANGED <<img, NDEBUG, held, it>>
  /\ UNCHANGED ctorVars

\* ImportDirectoryEntryRef::getImportLookupEntry
ImportGetImportLookupEntry ==
  /\ it.op = "imp"
  /\ ~ImportEq(it, import_directory_end)
  /\ LET r == getRvaPtr(ImportTableDeref(it).ImportLookupTableRVA)
     IN out' = [op |-> "getImportLookupEntry", Index |-> it.Index,
                ec |-> r.ec, Res |-> r.Res]
  /\ UNCHANGED <<img, NDEBUG, held, it>>
  /\ UNCHANGED ctorVars

(* The export directory. *)

ExportRef(Table, I) == [op |-> "exp", ExportTable |-> Table, Index |-> I]

export_directory_begin == ExportRef(obj.ExportDirectory, 0)

export_directory_end ==
  IF obj.ExportDirectory = NULL THEN ExportRef(NULL, 0)
  ELSE ExportRef(obj.ExportDirectory, img.Export.AddressTableEntries)

\* ExportDirectoryEntryRef::operator==
ExportEq(a, b) == a.ExportTable = b.ExportTable /\ a.Index = b.Index

\* The first position at or after Offset of the ordinal table, among its
\* first NumEntries, whose value equals Index; NumEntries if there is none.
RECURSIVE ExportFind(_, _, _)
ExportFind(Offset, NumEntries, Index) ==
  IF ~(Offset < NumEntries) THEN NumEntries
  ELSE IF OrdinalAt(Offset) # Index
       THEN ExportFind(Offset + 1, NumEntries, Index)
       ELSE Offset

\* ExportDirectoryEntryRef::getSymbolName
getSymbolName(Index) ==
  LET Start == getRvaPtr(img.Export.OrdinalTableRVA)
      NumEntries == img.Export.NumberOfNamePointers
      Offset == ExportFind(0, NumEntries, Index)
      NamePtr == getRvaPtr(img.Export.NamePointerRVA)
      Name == getRvaPtr(NamePointerAt(Offset))
  IN IF Start.ec # success THEN [ec |-> Start.ec, Res |-> EmptyString]
     ELSE IF Offset = NumEntries THEN [ec |-> success, Res |-> EmptyString]
     ELSE IF NamePtr.ec # success
     THEN [ec |-> NamePtr.ec, Res |-> EmptyString]
     ELSE IF Name.ec # success THEN [ec |-> Name.ec, Res |-> EmptyString]
     ELSE [ec |-> success, Res |-> StringAt(Name.Res)]

ExportBegin ==
  /\ Idle
  /\ it' = export_directory_begin
  /\ out' = NoResult
  /\ UNCHANGED <<img, NDEBUG, held>>
  /\ UNCHANGED ctorVars

\* ExportDirectoryEntryRef::moveNext, in
\* for (I = export_directory_begin(); I != export_directory_end(); ++I)
ExportMoveNext ==
  /\ it.op = "exp"
  /\ ~ExportEq(it, export_directory_end)
  /\ it' = [it EXCEPT !.Index = @ + 1]
  /\ out' = NoResult
  /\ UNCHANGED <<img, NDEBUG, held>>
  /\ UNCHANGED ctorVars

ExportGetSymbolName ==
  /\ it.op = "exp"
  /\ ~ExportEq(it, export_directory_end)
  /\ LET r == getSymbolName(it.Index)
     IN out' = [op |-> "getSymbolName", Index |-> it.Index, ec |-> r.ec,
                Res |-> r.Res]
  /\ UNCHANGED <<img, NDEBUG, held, it>>
  /\ UNCHANGED ctorVars

(* Iterators are values: a second caller holds a copy of one. *)

\* Another caller takes a copy of the iterator; held is that copy, which
\* only its holder advances.
HoldIterator ==
  /\ Constructed
  /\ it.op \in {"sym", "imp", "exp"}
  /\ held = NoIterator
  /\ held' = it
  /\ UNCHANGED <<img, NDEBUG, it, out>>
  /\ UNCHANGED ctorVars

(* Header getters. *)

\* COFFObjectFile::getPE32Header
QueryGetPE32Header ==
  /\ Idle
  /\ out' = [op |-> "getPE32Header", ec |-> success, Res |-> obj.PE32Header]
  /\ UNCHANGED <<img, NDEBUG, held, it>>
  /\ UNCHANGED ctorVars

\* COFFObjectFile::getMetadataHeader
QueryGetMetadataHeader ==
  /\ Idle
  /\ out' = [op |-> "getMetadataHeader", Res |-> obj.MetadataHeader]
  /\ UNCHANGED <<img, NDEBUG, held, it>>
  /\ UNCHANGED ctorVars

Query ==
  \/ QueryGetRvaPtr
  \/ QueryGetVaPtr
  \/ QueryGetSectionName
  \/ QueryGetSectionContents
  \/ QueryGetSectionAlignment
  \/ QueryGetSection
  \/ QueryGetString
  \/ QueryGetDataDirectory
  \/ QueryGetSymbolType
  \/ QueryGetSymbolSize
  \/ SymbolBegin
  \/ MoveSymbolNext
  \/ ImportBegin
  \/ ImportMoveNext
  \/ ImportGetName
  \/ ImportGetImportLookupEntry
  \/ ExportBegin
  \/ ExportMoveNext
  \/ ExportGetSymbolName
  \/ HoldIterator
  \/ QueryGetPE32Header
  \/ QueryGetMetadataHeader

-----------------------------------------------------------------------------
(* The buffers the constructor is run on.                                  *)

DD(r, s) == [RelativeVirtualAddress |-> r, Size |-> s]

NoDataDir ==
  (EXPORT_TABLE :> DD(0, 0)) @@ (IMPORT_TABLE :> DD(0, 0))
    @@ (CLR_RUNTIME_HEADER :> DD(0, 0))

NoExports ==
  [AddressTableEntries |-> 0, NumberOfNamePointers |-> 0,
   OrdinalTableRVA |-> 0, NamePointerRVA |-> 0, Ordinals |-> <<>>,
   NamePointers |-> <<>>]

\* The fields of the first record of the symbol table, but for its name and
\* its NumberOfAuxSymbols.
Symbol(value, section, type, class) ==
  [Value |-> value, SectionNumber |-> section, Type |-> type,
   StorageClass |-> class]

NullSymbol == Symbol(0, 0, 0, 0)

\* What a metadata cursor finds where there is no metadata: zeros.
NoMeta ==
  [Length |-> 0, Streams |-> 0, StreamHeaders |-> <<>>, Valid |-> {},
   Rows |-> <<>>]

\* An object file with nothing in it: a COFF header and an empty section
\* table.
BaseImage ==
  [bufSize |-> 600, MZ |-> FALSE, NewExeOff |-> 64, PESig |-> TRUE,
   NumberOfSections |-> 0, Sections |-> <<>>,
   PointerToSymbolTable |-> 0, NumberOfSymbols |-> 0, Symbols |-> <<>>,
   StrTabSize |-> 4, StrTabLastNul |-> TRUE,
   SizeOfOptionalHeader |-> 0, Magic |-> 0, NumberOfRvaAndSize |-> 0,
   ImageBase |-> 0, DataDir |-> NoDataDir, Imports |-> <<>>,
   Export |-> NoExports, MetadataRVA |-> 0, Sym |-> NullSymbol,
   Meta |-> NoMeta]

\* ".text"
DotText == <<46, 116, 101, 120, 116, 0, 0, 0>>

Sec(va, vs, prd, srd) ==
  [Name |-> DotText, VirtualAddress |-> va, VirtualSize |-> vs,
   PointerToRawData |-> prd, SizeOfRawData |-> srd,
   Characteristics |-> Flags(TRUE, FALSE, 1)]

\* A section whose raw data lies in the buffer, and one whose raw data
\* pointer lies beyond its end.
SecIn == Sec(16, 128, 420, 128)
SecOut == Sec(160, 32, 900, 32)

\* An executable: DOS stub, "PE\0\0" at 64, a PE32 or PE32+ optional header
\* with room for 16 data directories, then the section table.
PEImage(magic, nrva, secs) ==
  [BaseImage EXCEPT !.MZ = TRUE, !.Magic = magic,
                    !.NumberOfRvaAndSize = nrva,
                    !.SizeOfOptionalHeader =
                       (IF magic = PE32PlusMagic THEN SizeofPE32PlusHeader
                        ELSE SizeofPE32Header) + 16 * SizeofDataDirectory,
                    !.NumberOfSections = Len(secs), !.Sections = secs]

\* Buffers that differ in what precedes the section table.
HeaderImages ==
  { [BaseImage EXCEPT !.bufSize = b, !.MZ = mz, !.NewExeOff = off,
                      !.PESig = sig, !.Magic = m,
                      !.NumberOfRvaAndSize = n,
                      !.SizeOfOptionalHeader = 224,
                      !.NumberOfSections = ns] :
      b \in {16, 60, 100, 190, 600}, mz \in BOOLEAN, off \in {64, 90, 700},
      sig \in BOOLEAN, m \in {PE32Magic, PE32PlusMagic, 0},
      n \in {0, 16, 100}, ns \in {0, ImportLibrarySections, 30} }

\* Executables that differ in their sections and data directories.
DirImages ==
  { [PEImage(m, n, secs) EXCEPT
       !.DataDir = (EXPORT_TABLE :> DD(ex, 40)) @@ (IMPORT_TABLE :> im)
                     @@ (CLR_RUNTIME_HEADER :> DD(clr[1], 72)),
       !.MetadataRVA = clr[2]] :
      m \in {PE32Magic, PE32PlusMagic}, n \in {0, 1, 16},
      secs \in {<<>>, <<SecIn>>, <<SecOut, SecIn>>},
      ex \in {0, 32, 300},
      im \in {DD(0, 0), DD(0, 45), DD(16, 45), DD(160, 20), DD(300, 20)},
      clr \in {<<0, 0>>, <<48, 0>>, <<48, 64>>, <<48, 300>>, <<170, 64>>,
               <<300, 0>>} }

\* Object files that differ in their sections, symbols and strings.
ObjImages ==
  { [BaseImage EXCEPT !.NumberOfSections = Len(secs), !.Sections = secs,
                      !.PointerToSymbolTable = p, !.NumberOfSymbols = n,
                      !.Symbols = [k \in 1..(IF n > 2 THEN 0 ELSE n) |-> 0],
                      !.StrTabSize = sz, !.StrTabLastNul = nul] :
      secs \in {<<>>, <<SecIn>>, <<SecOut, SecIn>>},
      p \in {0, 420, 590}, n \in {0, 1, 2, 40}, sz \in {0, 4, 8, 700},
      nul \in BOOLEAN }

\* The sections getRvaPtr is asked about: raw data in the buffer, raw data
\* shorter than the virtual size, raw data beyond the buffer, a range that
\* ends beyond the 32-bit address space, and a range overlapping the first.
RvaSections ==
  {SecIn, Sec(16, 128, 420, 8), SecOut, Sec(Max32 - 8, 16, 420, 16),
   Sec(100, 60, 300, 60)}

MaxSections == 2

RECURSIVE SeqsUpTo(_, _)
\* The sequences over S of length at most n.
SeqsUpTo(S, n) ==
  IF n = 0 THEN {<<>>}
  ELSE LET shorter == SeqsUpTo(S, n - 1)
       IN shorter \cup {Append(q, x) : q \in shorter, x \in S}

RvaImages ==
  { [BaseImage EXCEPT !.NumberOfSections = Len(secs), !.Sections = secs] :
      secs \in SeqsUpTo(RvaSections, MaxSections) }

MaxSymbols == 3
MaxAux == 1

\* Object files whose symbols have auxiliary records.
SymImages ==
  { [BaseImage EXCEPT !.PointerToSymbolTable = 420,
                      !.NumberOfSymbols = Len(aux), !.Symbols = aux] :
      aux \in SeqsUpTo(0..MaxAux, MaxSymbols) }

MaxImports == 2

ImportEntries ==
  { [NameRVA |-> n, ImportLookupTableRVA |-> l] :
      n \in {80, 100}, l \in {40, 60} }

\* Executables with an import directory table at RVA 16.
ImportImages ==
  { [PEImage(PE32Magic, n, <<SecIn>>) EXCEPT
       !.DataDir = (EXPORT_TABLE :> DD(0, 0))
                     @@ (IMPORT_TABLE :>
                           DD(16, Len(imps) * SizeofImportDirectoryTableEntry
                                    + 5))
                     @@ (CLR_RUNTIME_HEADER :> DD(0, 0)),
       !.Imports = imps] :
      n \in {1, 16}, imps \in SeqsUpTo(ImportEntries, MaxImports) }

MaxExports == 2

\* Executables with an export directory table at RVA 32.
ExportImages ==
  { [PEImage(PE32Magic, 16, <<SecIn, SecOut>>) EXCEPT
       !.DataDir = (EXPORT_TABLE :> DD(32, 40)) @@ (IMPORT_TABLE :> DD(0, 0))
                     @@ (CLR_RUNTIME_HEADER :> DD(0, 0)),
       !.Export = [AddressTableEntries |-> a,
                   NumberOfNamePointers |-> Len(ords),
                   OrdinalTableRVA |-> ot, NamePointerRVA |-> 112,
                   Ordinals |-> ords,
                   NamePointers |-> [k \in 1..Len(ords) |-> names[k]]]] :
      a \in 0..MaxExports, ot \in {0, 96},
      ords \in SeqsUpTo(0..MaxExports, MaxExports),
      names \in {<<80, 88, 92>>, <<160, 80, 88>>, <<300, 80, 88>>} }

\* Pad(<<47, 52>>) is the 8 bytes of the name "/4".
Pad(Chars) == Chars \o [k \in 1..(8 - Len(Chars)) |-> 0]

SectionNames ==
  { DotText,
    Pad(<<>>),
    <<46, 116, 0, 120, 116, 0, 0, 0>>,               \* ".t\0xt"
    <<46, 100, 101, 98, 117, 103, 36, 83>>,           \* ".debug$S"
    <<46, 116, 47, 52, 0, 0, 0, 0>>,                  \* ".t/4"
    Pad(<<47>>),                                      \* "/"
    Pad(<<47, 48>>),                                  \* "/0"
    Pad(<<47, 52>>),                                  \* "/4"
    Pad(<<47, 49, 50>>),                              \* "/12"
    Pad(<<47, 50, 48>>),                              \* "/20"
    Pad(<<47, 49, 120>>),                             \* "/1x"
    Pad(<<47, 45, 49>>),                              \* "/-1"
    <<47, 49, 50, 51, 52, 53, 54, 55>>,               \* "/1234567"
    Pad(<<47, 47>>),                                  \* "//"
    Pad(<<47, 47, 66>>),                              \* "//B"
    Pad(<<47, 47, 65, 77>>),                          \* "//AM"
    <<47, 47, 65, 65, 65, 65, 65, 66>>,               \* "//AAAAAB"
    <<47, 47, 65, 65, 65, 65, 65, 85>>,               \* "//AAAAAU"
    <<47, 47, 65, 65, 65, 65, 66, 65>>,               \* "//AAAABA"
    <<47, 47, 68, 47, 47, 47, 47, 47>>,               \* "//D/////"
    <<47, 47, 69, 65, 65, 65, 65, 65>>,               \* "//EAAAAA"
    <<47, 47, 65, 65, 65, 64, 65, 66>>,               \* "//AAA@AB"
    <<47, 47, 65, 65, 65, 65, 65, 61>> }              \* "//AAAAA="

\* Object files with one named section and a string table of 4, 20 or 70
\* bytes.
NameImages ==
  { [BaseImage EXCEPT !.NumberOfSections = 1,
                      !.Sections = <<[SecIn EXCEPT !.Name = name]>>,
                      !.PointerToSymbolTable = 420, !.StrTabSize = sz] :
      name \in SectionNames, sz \in {4, 20, 70} }

\* Section tables for the symbols below: read-only, writable and
\* unreadable sections, and a section of 8 bytes.
TypedSections ==
  { <<>>,
    <<SecIn>>,
    <<[SecIn EXCEPT !.Characteristics = Flags(TRUE, TRUE, 1)],
      [SecIn EXCEPT !.SizeOfRawData = 8]>>,
    <<[SecIn EXCEPT !.Characteristics = Flags(FALSE, FALSE, 1)],
      [SecIn EXCEPT !.Characteristics = Flags(FALSE, TRUE, 1)]>> }

\* Object files with one symbol, which differ in its fields.
TypedSymImages ==
  { [BaseImage EXCEPT !.NumberOfSections = Len(secs), !.Sections = secs,
                      !.PointerToSymbolTable = 420, !.NumberOfSymbols = 1,
                      !.Symbols = <<0>>,
                      !.Sym = Symbol(value, section, type, class)] :
      secs \in TypedSections, value \in {0, 8, 100, 200},
      section \in {-3, -2, -1, 0, 1, 2, 3}, type \in {0, 32, 33, 288, 16},
      class \in {2, 3} }

\* Executables with an image base, of 32 bits in a PE32 header and of 64 in
\* a PE32+ header, and an object file, which has none.
VaImages ==
  { [PEImage(PE32Magic, 16, <<SecIn>>) EXCEPT !.ImageBase = b] :
      b \in {0, 64, Max32 - 16} }
    \cup { [PEImage(PE32PlusMagic, 16, <<SecIn>>) EXCEPT !.ImageBase = b] :
             b \in {0, 64, Max32} }
    \cup { [BaseImage EXCEPT !.NumberOfSections = 1,
                             !.Sections = <<SecIn>>] }

\* Object files with one section, of each value of the alignment field.
AlignImages ==
  { [BaseImage EXCEPT
       !.NumberOfSections = 1,
       !.Sections = <<[SecIn EXCEPT !.Characteristics =
                                       Flags(TRUE, FALSE, a)]>>] :
      a \in 0..15 }

\* A managed executable: one section at file offset 360 that holds the CLI
\* header at RVA 16 and the metadata root at RVA 96, file offset 440.
ManagedImage(b, meta) ==
  [PEImage(PE32Magic, 16, <<Sec(16, 400, 360, 400)>>) EXCEPT
     !.bufSize = b,
     !.DataDir = (EXPORT_TABLE :> DD(0, 0)) @@ (IMPORT_TABLE :> DD(0, 0))
                   @@ (CLR_RUNTIME_HEADER :> DD(16, 72)),
     !.MetadataRVA = 96,
     !.Meta = meta]

\* Stream headers: "#~" at 64, at 0 and at 100, "#Strings", "#US" and
\* "#Blob".
StreamPool ==
  { [offset |-> 64, size |-> 80, name |-> TablesStreamName],
    [offset |-> 0, size |-> 80, name |-> TablesStreamName],
    [offset |-> 100, size |-> 40, name |-> TablesStreamName],
    [offset |-> 200, size |-> 16,
     name |-> <<35, 83, 116, 114, 105, 110, 103, 115>>],
    [offset |-> 216, size |-> 4, name |-> <<35, 85, 83>>],
    [offset |-> 220, size |-> 8, name |-> <<35, 66, 108, 111, 98>>] }

MaxStreams == 2

\* Tables of which some are supported, one is asserted not to be there
\* (0x04), and two are neither (0x03, 0x2D).
TablePool == {0, 1, 3, 4, 6, 35, 45}

\* The row counts that follow the bitmaps: 1, 2, 3, ... in this order.
RowsOf(Valid) == [n \in 1..Cardinality(Valid) |-> n]

\* The metadata of the three tables Module, TypeRef and AssemblyRef with 1,
\* 2 and 1 rows, in a stream "#~" at offset 64.
ThreeTables ==
  [Length |-> 12, Streams |-> 1,
   StreamHeaders |-> <<[offset |-> 64, size |-> 80,
                        name |-> TablesStreamName]>>,
   Valid |-> {0, 1, 35}, Rows |-> <<1, 2, 1>>]

\* Managed executables that differ in the version length and the stream
\* headers, in the tables present, and in where the buffer ends.
MetaImages ==
  { ManagedImage(600, [ThreeTables EXCEPT !.Length = l, !.Streams = Len(hs),
                                          !.StreamHeaders = hs]) :
      l \in {0, 10, 12}, hs \in SeqsUpTo(StreamPool, MaxStreams) }
    \cup { ManagedImage(600, [ThreeTables EXCEPT !.Valid = v,
                                                 !.Rows = RowsOf(v)]) :
             v \in SUBSET TablePool }
    \cup { ManagedImage(b, ThreeTables) :
             b \in {442, 454, 470, 480, 510, 530, 600} }
    \cup { ManagedImage(600, [ThreeTables EXCEPT !.Streams = 3]) }

Images ==
  MetaImages \cup AlignImages \cup VaImages \cup HeaderImages \cup DirImages \cup ObjImages \cup RvaImages \cup SymImages
    \cup ImportImages \cup ExportImages \cup NameImages
    \cup TypedSymImages

-----------------------------------------------------------------------------
(* Construction of an object from a buffer.                                *)

Init ==
  /\ \/ img \in Images /\ NDEBUG = TRUE
     \/ img \in SymImages \cup VaImages \cup MetaImages /\ NDEBUG = FALSE
  /\ CtorInit
  /\ it = NoIterator
  /\ out = NoResult
  /\ held = NoIterator

Next == Construct \/ Query

Spec == Init /\ [][Next]_vars

-----------------------------------------------------------------------------
(* decodeBase64StringEntry on its own, called on strings of up to MaxLen   *)
(* characters, with its assertion compiled in or out.                      *)

MaxLen == 7

\* A character of each range the decoder tells apart, and the characters
\* next to the ranges.
RichChars ==
  {65, 66, 67, 68, 69, 90, 97, 122, 48, 57, 43, 47,
   0, 32, 42, 44, 46, 58, 61, 64, 91, 96, 123}

\* The strings of n characters 'A' and '/' with one character replaced.
StringsOfLen(n) ==
  IF n = 0 THEN {<<>>}
  ELSE { [b EXCEPT ![k] = c] :
           b \in [1..n -> {65, 47}], k \in 1..n, c \in RichChars }

\* The strings of up to m characters.
Base64Strings(m) == UNION { StringsOfLen(n) : n \in 0..m }

InitBase64 ==
  /\ img = BaseImage
  /\ NDEBUG \in BOOLEAN
  /\ pc = "decode"
  /\ CurPtr = 0
  /\ HasPEHeader = FALSE
  /\ EC = success
  /\ obj = NullObject
  /\ stageErr = success
  /\ ub = FALSE
  /\ ret = "none"
  /\ it \in { [op |-> "b64", Str |-> str] : str \in Base64Strings(MaxLen) }
  /\ out = NoResult
  /\ held = NoIterator

\* A call of decodeBase64StringEntry(Str, Result).
CallDecodeBase64 ==
  /\ pc = "decode"
  /\ IF ~NDEBUG /\ ~(Len(it.Str) <= 6)
     THEN pc' = "fatal" /\ UNCHANGED out
     ELSE /\ pc' = "done"
          /\ out' = [op |-> "decode", Str |-> it.Str,
                     failed |-> decodeBase64StringEntry(it.Str).failed,
                     Result |-> decodeBase64StringEntry(it.Str).Result]
  /\ UNCHANGED <<img, NDEBUG, held, CurPtr, HasPEHeader, EC, obj, stageErr, ub,
                 ret, it>>

NextBase64 == CallDecodeBase64

SpecBase64 == InitBase64 /\ [][NextBase64]_vars

-----------------------------------------------------------------------------
(* getMethodSize on its own: it reads the memory at the address it is      *)
(* given and nothing of the object.                                        *)

\* The 32-bit words at method + 4.
MethodWords == {0, 1, 100, Max32 - 13, Max32 - 12, Max32 - 1}

InitMethod ==
  /\ img = BaseImage
  /\ NDEBUG = TRUE
  /\ pc = "method"
  /\ CurPtr = 0
  /\ HasPEHeader = FALSE
  /\ EC = success
  /\ obj = NullObject
  /\ stageErr = success
  /\ ub = FALSE
  /\ ret = "none"
  /\ it \in { [op |-> "method", buff |-> b, word |-> w, size |-> n] :
                b \in 0..255, w \in MethodWords, n \in {0, 7} }
  /\ out = NoResult
  /\ held = NoIterator

\* A call of getMethodSize(method, size).
CallGetMethodSize ==
  /\ pc = "method"
  /\ pc' = "done"
  /\ out' = [op |-> "getMethodSize",
             ec |-> getMethodSize(it.buff, it.word, it.size).ec,
             size |-> getMethodSize(it.buff, it.word, it.size).size]
  /\ UNCHANGED <<img, NDEBUG, held, CurPtr, HasPEHeader, EC, obj, stageErr, ub,
                 ret, it>>

NextMethod == CallGetMethodSize

SpecMethod == InitMethod /\ [][NextMethod]_vars

-----------------------------------------------------------------------------
(* Properties of construction.                                             *)

\* A non-null pointer refers to Size bytes that lie inside the buffer.
NullOrInBuffer(Ptr, Size) ==
  Ptr = NULL \/ (0 <= Ptr /\ Ptr + Size <= img.bufSize)

\* C1: after a successful construction every non-null cached pointer refers
\* to a byte range of its structure's full size inside the buffer, and the
\* pointers of structures the image does not have are null.
C1_CachedPointersInBuffer ==
  Constructed =>
    /\ NullOrInBuffer(obj.COFFHeader, SizeofCoffFileHeader)
    /\ NullOrInBuffer(obj.PE32Header, SizeofPE32Header)
    /\ NullOrInBuffer(obj.PE32PlusHeader, SizeofPE32PlusHeader)
    /\ NullOrInBuffer(obj.DataDirectory,
                      SizeofDataDirectory * img.NumberOfRvaAndSize)
    /\ NullOrInBuffer(obj.SectionTable,
                      SizeofCoffSection * img.NumberOfSections)
    /\ NullOrInBuffer(obj.SymbolTable,
                      SizeofCoffSymbol * img.NumberOfSymbols)
    /\ NullOrInBuffer(obj.StringTable, obj.StringTableSize)
    /\ NullOrInBuffer(obj.ImportDirectory, SizeofImportDirectoryTableEntry)
    /\ NullOrInBuffer(obj.ExportDirectory, SizeofExportDirectoryTableEntry)
    /\ NullOrInBuffer(obj.CLRHeader, SizeofClrHeader)
    /\ ~img.MZ => /\ obj.PE32Header = NULL
                  /\ obj.PE32PlusHeader = NULL
                  /\ obj.DataDirectory = NULL
    /\ isImportLibrary => obj.SectionTable = NULL
    /\ (isImportLibrary \/ img.PointerToSymbolTable = 0) =>
          obj.SymbolTable = NULL /\ obj.StringTable = NULL
    /\ (isImportLibrary \/ ~img.MZ) =>
          /\ obj.ImportDirectory = NULL
          /\ obj.ExportDirectory = NULL
          /\ obj.CLRHeader = NULL

\* C2: createCOFFObjectFile returns an object only when every stage
\* succeeded; when a stage returned an error, that error is returned, and no
\* object is visible before the return or after a crash.
C2_Transactional ==
  /\ pc = "done" => /\ (ret = "image") <=> (stageErr = success)
                    /\ stageErr # success => ret = stageErr
  /\ pc # "done" => ret = "none"

\* A failure of the last stage, after the stages before it cached pointers.
C2_Witness ==
  /\ pc = "done"
  /\ ret = parse_failed
  /\ obj.CLRHeader # NULL
  /\ obj.ImportDirectory # NULL


-----------------------------------------------------------------------------
(* RVA resolution.                                                         *)

\* The sections whose range [VirtualAddress, VirtualAddress + VirtualSize),
\* taken in the integers, contains Addr.
Covering(Addr) ==
  { I \in 1..NumSections :
      /\ SectionAt(I).VirtualAddress <= Addr
      /\ Addr < SectionAt(I).VirtualAddress + SectionAt(I).VirtualSize }

FirstCovering(Addr) ==
  CHOOSE I \in Covering(Addr) : \A J \in Covering(Addr) : I <= J

\* C3: getRvaPtr(rva) returns parse_failed if and only if no section's range
\* [VirtualAddress, VirtualAddress + VirtualSize) contains rva, and otherwise
\* succeeds with PointerToRawData + (rva - VirtualAddress) of the first
\* section in table order whose range contains rva, also when
\* VirtualAddress + VirtualSize exceeds 32 bits.
C3_FirstCoveringSection ==
  out.op = "getRvaPtr" =>
    IF Covering(out.Addr) = {} THEN out.ec = parse_failed
    ELSE /\ out.ec = success
         /\ out.Res = SectionAt(FirstCovering(out.Addr)).PointerToRawData
                        + (out.Addr
                             - SectionAt(FirstCovering(out.Addr))
                                 .VirtualAddress)

\* C4: a pointer getRvaPtr returns with success lies within the raw data
\* range [PointerToRawData, PointerToRawData + SizeOfRawData) of the section
\* covering the RVA, and inside the buffer.
C4_InRawData ==
  (out.op = "getRvaPtr" /\ out.ec = success /\ Covering(out.Addr) # {}) =>
    LET Section == SectionAt(FirstCovering(out.Addr))
    IN /\ Section.PointerToRawData <= out.Res
       /\ out.Res < Section.PointerToRawData + Section.SizeOfRawData
       /\ out.Res < img.bufSize

-----------------------------------------------------------------------------
(* Iteration.                                                              *)

\* C5: each moveSymbolNext from a symbol with NumberOfAuxSymbols = n
\* advances the iterator by exactly n + 1 slots of the symbol table, and the
\* slot index of the iterator never exceeds NumberOfSymbols (the slot of
\* symbol_end, which the iteration therefore cannot step over).
C5_SymbolIteration ==
  (it.op = "sym" /\ it.p # NULL) =>
    /\ it.from # NULL =>
         SymbolSlot(it.p) = SymbolSlot(it.from) + it.aux + 1
    /\ SymbolSlot(it.p) <= img.NumberOfSymbols

\* C6: at the position reached by i applications of moveNext, getName
\* resolves the NameRVA of the i-th entry of the import directory table and
\* getImportLookupEntry resolves its ImportLookupTableRVA.
C6_OwnEntry ==
  /\ out.op = "getName" =>
       /\ out.ec = getRvaPtr(ImportAt(out.Index).NameRVA).ec
       /\ out.Res = getRvaPtr(ImportAt(out.Index).NameRVA).Res
  /\ out.op = "getImportLookupEntry" =>
       /\ out.ec = getRvaPtr(ImportAt(out.Index).ImportLookupTableRVA).ec
       /\ out.Res = getRvaPtr(ImportAt(out.Index).ImportLookupTableRVA).Res

\* The number of records the import data directory announces, for an image
\* whose import directory was located.
ExpectedImports ==
  IF obj.ImportDirectory = NULL THEN 0
  ELSE DataDirAt(IMPORT_TABLE).Size \div SizeofImportDirectoryTableEntry

OrdinalMatches(Index) ==
  { P \in 0..(img.Export.NumberOfNamePointers - 1) : OrdinalAt(P) = Index }

FirstOrdinalMatch(Index) ==
  CHOOSE P \in OrdinalMatches(Index) : \A Q \in OrdinalMatches(Index) : P <= Q

\* C8: for an export index i below AddressTableEntries, getSymbolName
\* succeeds with the empty string when no position of the ordinal table
\* holds i, and otherwise yields the string at the RVA stored at the first
\* such position of the name pointer table, a string inside the buffer.
C8_ExportName ==
  (out.op = "getSymbolName" /\ out.Index < img.Export.AddressTableEntries) =>
    IF OrdinalMatches(out.Index) = {}
    THEN out.ec = success /\ out.Res = EmptyString
    ELSE LET Name ==
               getRvaPtr(NamePointerAt(FirstOrdinalMatch(out.Index)))
         IN Name.ec = success =>
              /\ out.ec = success
              /\ out.Res = StringAt(Name.Res)
              /\ Name.Res < img.bufSize


-----------------------------------------------------------------------------
(* Names.                                                                  *)

\* The raw name: all 8 bytes if the last is not NUL, else the bytes before
\* the first NUL.
RawName(Bytes) ==
  IF Bytes[8] # 0 THEN Bytes
  ELSE SubSeq(Bytes, 1,
              CHOOSE n \in 0..7 :
                /\ Bytes[n + 1] = 0
                /\ \A k \in 1..n : Bytes[k] # 0)

IsBase64Char(c) ==
  c \in (65..90) \cup (97..122) \cup (48..57) \cup {43, 47}

\* The digit of a character of the alphabet A-Z a-z 0-9 + /.
DigitOf(c) ==
  CHOOSE d \in 0..63 :
    c = (<<65, 66, 67, 68, 69, 70, 71, 72, 73, 74, 75, 76, 77, 78, 79, 80,
           81, 82, 83, 84, 85, 86, 87, 88, 89, 90, 97, 98, 99, 100, 101,
           102, 103, 104, 105, 106, 107, 108, 109, 110, 111, 112, 113, 114,
           115, 116, 117, 118, 119, 120, 121, 122, 48, 49, 50, 51, 52, 53,
           54, 55, 56, 57, 43, 47>>)[d + 1]

\* The digits of at most 6 characters, most significant first, after
\* leading zeros.
Digits6(Str) ==
  [k \in 1..6 |->
     IF k <= 6 - Len(Str) THEN 0 ELSE DigitOf(Str[k - (6 - Len(Str))])]

\* At most 6 characters of the alphabet whose base-64 value is below 2^32.
Decodable(Str) ==
  /\ Len(Str) <= 6
  /\ \A k \in 1..Len(Str) : IsBase64Char(Str[k])
  /\ Digits6(Str)[1] < 4

\* The 32-bit value of six base-64 digits, bit by bit.
ValueOfDigits(d) ==
  U(d[1] * 16384 + d[2] * 256 + d[3] * 4 + d[4] \div 16,
    (d[4] % 16) * 4096 + d[5] * 64 + d[6])

\* The value of decimal digits, times 10^(Len - k) each.
DecimalOf(Str) ==
  LET RECURSIVE Sum(_)
      Sum(k) == IF k > Len(Str) THEN 0
                ELSE (Str[k] - 48) * 10 ^ (Len(Str) - k) + Sum(k + 1)
  IN Sum(1)

IsDecimal(Str) ==
  Str # <<>> /\ \A k \in 1..Len(Str) : Str[k] \in 48..57

\* C9: getSectionName takes all 8 bytes as the raw name if the last is not
\* NUL and the NUL-terminated prefix otherwise; a raw name not starting with
\* '/' is the result; "/NNN" with decimal digits NNN yields what getString
\* yields at offset NNN; "//" followed by base-64 digits, most significant
\* first, of a 32-bit value v yields what getString yields at offset v; any
\* other name starting with '/' yields parse_failed.
C9_SectionName ==
  out.op = "getSectionName" =>
    LET raw == RawName(SectionAt(out.Sec).Name)
        got == [ec |-> out.ec, Res |-> out.Res]
    IN IF raw = <<>> \/ raw[1] # 47
       THEN got = [ec |-> success, Res |-> StringOf(raw)]
       ELSE IF Len(raw) >= 2 /\ raw[2] = 47
       THEN IF Decodable(SubSeq(raw, 3, Len(raw)))
            THEN got = getString(obj, ValueOfDigits(
                                        Digits6(SubSeq(raw, 3, Len(raw)))))
            ELSE got = [ec |-> parse_failed, Res |-> EmptyString]
       ELSE IF IsDecimal(Tail(raw))
       THEN got = getString(obj, ToU(DecimalOf(Tail(raw))))
       ELSE got = [ec |-> parse_failed, Res |-> EmptyString]

\* "//AAAAAB" names the string at offset 1 of the string table.
C9_Witness ==
  /\ out.op = "getSectionName"
  /\ SectionAt(out.Sec).Name = <<47, 47, 65, 65, 65, 65, 65, 66>>
  /\ out.ec = success
  /\ out.Res = StringAt(obj.StringTable + 1)

EncodeChar(d) ==
  IF d < 26 THEN 65 + d
  ELSE IF d < 52 THEN 97 + (d - 26)
  ELSE IF d < 62 THEN 48 + (d - 52)
  ELSE IF d = 62 THEN 43
  ELSE 47

\* The n least significant base-64 digits of v, most significant first.
RECURSIVE Encode(_, _)
Encode(v, n) ==
  IF n = 0 THEN <<>>
  ELSE Append(Encode(U(v.hi \div 64, (v.hi % 64) * 1024 + v.lo \div 64),
                     n - 1),
              EncodeChar(v.lo % 64))

AllBase64(Str) == \A k \in 1..Len(Str) : IsBase64Char(Str[k])

\* C10 as stated: every 6-character string over the alphabet decodes, and
\* encoding the result in 6 digits gives the string back; strings of 7 or
\* more characters, strings with a character outside the alphabet and
\* strings whose value is not below 2^32 fail.
C10_EverySixCharacters ==
  out.op = "decode" =>
    /\ (Len(out.Str) = 6 /\ AllBase64(out.Str)) =>
         ~out.failed /\ Encode(out.Result, 6) = out.Str
    /\ (Len(out.Str) >= 7 \/ ~AllBase64(out.Str)) => out.failed
    /\ (AllBase64(out.Str) /\ Len(out.Str) = 6 /\ out.Str[1] \notin 65..68)
         => out.failed

\* C10, amended: a 6-character string over the alphabet decodes exactly
\* when its first character is one of A-D, that is when its value is below
\* 2^32, and then encoding the result in 6 digits gives the string back; a
\* call that returns fails exactly on strings of 7 or more characters,
\* strings with a character outside the alphabet and strings whose value is
\* not below 2^32; a call on 7 or more characters returns only where the
\* assertion is compiled out, and is the only call that does not return.
C10_Base64RoundTrip ==
  /\ out.op = "decode" =>
       /\ (Len(out.Str) = 6 /\ AllBase64(out.Str)
             /\ out.Str[1] \in 65..68) =>
            ~out.failed /\ Encode(out.Result, 6) = out.Str
       /\ out.failed <=>
            \/ Len(out.Str) >= 7
            \/ ~AllBase64(out.Str)
            \/ Len(out.Str) = 6 /\ out.Str[1] \notin 65..68
       /\ Len(out.Str) >= 7 => NDEBUG
  /\ pc = "fatal" => ~NDEBUG /\ Len(it.Str) >= 7

\* "D/////" decodes to 2^32 - 1.
C10_Witness ==
  /\ out.op = "decode"
  /\ out.Str = <<68, 47, 47, 47, 47, 47>>
  /\ ~out.failed
  /\ out.Result = U(65535, 65535)
  /\ Encode(out.Result, 6) = out.Str


-----------------------------------------------------------------------------
(* The string table.                                                       *)

\* Where the string table is: right after the symbol records.
StringTableStart ==
  img.PointerToSymbolTable + img.NumberOfSymbols * SizeofCoffSymbol

\* C11: when the constructor initialises the symbol table of a buffer that
\* holds the symbol records and the 4-byte length prefix after them, the
\* stage fails with unexpected_eof if the declared size extends past the end
\* of the buffer, else with parse_failed if the size is above 4 and the byte
\* at index size - 1 is not NUL, and else succeeds with the string table
\* right after the symbol records and its size the declared one, or 4 where
\* less than 4 was declared.
C11_StringTableInit ==
  [][(/\ pc = "symbolTable"
      /\ img.PointerToSymbolTable # 0
      /\ StringTableStart + SizeofULittle32 <= img.bufSize)
       => IF StringTableStart + img.StrTabSize > img.bufSize
          THEN EC' = unexpected_eof /\ pc' = "ctorReturn"
          ELSE IF img.StrTabSize > 4 /\ ~img.StrTabLastNul
          THEN EC' = parse_failed /\ pc' = "ctorReturn"
          ELSE /\ EC' = success
               /\ pc' = "importTable"
               /\ obj'.SymbolTable = img.PointerToSymbolTable
               /\ obj'.StringTable = StringTableStart
               /\ obj'.StringTableSize =
                    (IF img.StrTabSize < 4 THEN 4 ELSE img.StrTabSize)]_vars

\* An object was constructed from a buffer declaring a string table of
\* fewer than 4 bytes after one symbol record.
C11_Witness ==
  /\ Constructed
  /\ img.PointerToSymbolTable # 0
  /\ img.NumberOfSymbols = 1
  /\ img.StrTabSize < 4
  /\ obj.StringTable = img.PointerToSymbolTable + SizeofCoffSymbol
  /\ obj.StringTableSize = 4


-----------------------------------------------------------------------------
(* Symbol types and sizes.                                                 *)

\* Whether a section number names a section of the table.
NamesSection(n) == n \in 1..img.NumberOfSections

\* The type the order of the decisions gives a symbol whose section number,
\* if positive, names a section.
TypeByOrder(Symb) ==
  IF Symb.StorageClass = 2 /\ Symb.SectionNumber = 0 THEN "ST_Unknown"
  ELSE IF (Symb.Type \div 16) % 16 = 2 THEN "ST_Function"
  ELSE IF /\ Symb.SectionNumber > 0
          /\ SectionAt(Symb.SectionNumber).Characteristics.MemRead
          /\ ~SectionAt(Symb.SectionNumber).Characteristics.MemWrite
  THEN "ST_Data"
  ELSE "ST_Other"

\* C12 as stated: a positive section number greater than NumberOfSections
\* yields parse_failed; every other symbol gets the type the order of the
\* decisions gives it.
C12_SymbolTypeAsStated ==
  out.op = "getSymbolType" =>
    IF img.Sym.SectionNumber > img.NumberOfSections
    THEN out.ec = parse_failed
    ELSE out.ec = success /\ out.Result = TypeByOrder(img.Sym)

\* C12, amended: ST_Unknown for an external symbol with section number
\* UNDEFINED; else ST_Function for complex type FUNCTION; else parse_failed
\* for a positive section number greater than NumberOfSections; else
\* ST_Data in a section with MEM_READ and without MEM_WRITE; else ST_Other.
\* The section number is looked at only after the first two decisions.
C12_SymbolType ==
  out.op = "getSymbolType" =>
    IF /\ img.Sym.SectionNumber > img.NumberOfSections
       /\ ~(img.Sym.StorageClass = 2 /\ img.Sym.SectionNumber = 0)
       /\ (img.Sym.Type \div 16) % 16 # 2
    THEN out.ec = parse_failed
    ELSE out.ec = success /\ out.Result = TypeByOrder(img.Sym)

\* A function symbol with a section number that names no section.
C12_Witness ==
  /\ out.op = "getSymbolType"
  /\ img.Sym.SectionNumber = 3 /\ img.NumberOfSections = 2
  /\ img.Sym.Type = 32
  /\ out.ec = success
  /\ out.Result = "ST_Function"


\* C13: getSymbolSize succeeds with SizeOfRawData - Value of the section a
\* section number in 1..NumberOfSections names, a size that is at most
\* SizeOfRawData, and with zero for the section numbers UNDEFINED, ABSOLUTE
\* and DEBUG.
C13_SymbolSize ==
  out.op = "getSymbolSize" =>
    IF NamesSection(img.Sym.SectionNumber)
    THEN /\ out.ec = success
         /\ out.Result =
              SizeOf(SectionAt(img.Sym.SectionNumber).SizeOfRawData
                       - img.Sym.Value)
         /\ out.Result.v <= SectionAt(img.Sym.SectionNumber).SizeOfRawData
    ELSE img.Sym.SectionNumber \in {0, -1, -2} =>
           out.ec = success /\ out.Result = SizeOf(0)


-----------------------------------------------------------------------------
(* Headers.                                                                *)

\* C14: on a buffer whose COFF header has NumberOfSections = 0xFFFF the
\* constructor never enters a stage after the header stages: the section
\* table, symbol table, string table, import directory, export directory
\* and CLI header stay null, section_begin() = section_end(), and the
\* construction succeeds once the header stages have.
C14_ImportLibrary ==
  img.NumberOfSections = ImportLibrarySections =>
    /\ pc \notin {"symbolTable", "importTable", "exportTable", "clrHeader",
                  "ctorSuccess"}
    /\ obj.SectionTable = NULL
    /\ obj.SymbolTable = NULL
    /\ obj.StringTable = NULL
    /\ obj.ImportDirectory = NULL
    /\ obj.ExportDirectory = NULL
    /\ obj.CLRHeader = NULL
    /\ section_begin = section_end
    /\ (/\ pc = "done"
        /\ obj.COFFHeader # NULL
        /\ HasPEHeader => obj.DataDirectory # NULL) => ret = "image"

\* An import library with a PE header was constructed.
C14_Witness ==
  /\ Constructed
  /\ img.NumberOfSections = ImportLibrarySections
  /\ HasPEHeader
  /\ obj.COFFHeader # NULL
  /\ obj.SectionTable = NULL


C16_DataDirectoryRange ==
  out.op = "getDataDirectory" =>
    /\ IF obj.DataDirectory # NULL /\ out.Index < img.NumberOfRvaAndSize
       THEN /\ out.ec = success
            /\ out.Res = obj.DataDirectory + out.Index * SizeofDataDirectory
       ELSE out.ec = parse_failed
    /\ out.ec = success =>
         /\ obj.DataDirectory <= out.Res
         /\ out.Res + SizeofDataDirectory
              <= obj.DataDirectory
                   + img.NumberOfRvaAndSize * SizeofDataDirectory


-----------------------------------------------------------------------------
(* Virtual addresses.                                                      *)

\* C17: on every image getVaPtr(va) ends by returning a pointer or an
\* error; on an image with an optional header, and for va at or above its
\* ImageBase by less than 2^32, it returns what getRvaPtr(va - ImageBase)
\* returns.
C17_VaIsRvaPlusBase ==
  out.op = "getVaPtr" =>
    /\ out.r.outcome = "returned"
    /\ (/\ obj.PE32Header # NULL \/ obj.PE32PlusHeader # NULL
        /\ out.Addr - img.ImageBase \in 0..(Max32 - 1)) =>
         /\ out.r.ec = getRvaPtr(out.Addr - img.ImageBase).ec
         /\ out.r.Res = getRvaPtr(out.Addr - img.ImageBase).Res


-----------------------------------------------------------------------------
(* CLI methods.                                                            *)

\* The two low bits of a byte.
LowBits(b) == b - 4 * (b \div 4)

\* C18: with b the first byte of the method, getMethodSize succeeds with
\* size (b >> 2) + 1 if b & 3 = 2, succeeds with size the 32-bit value at
\* method + 4 plus 12, in 32-bit arithmetic, if b & 3 = 3, and returns
\* parse_failed and leaves size as it was if b & 3 is 0 or 1.
C18_MethodSize ==
  out.op = "getMethodSize" =>
    /\ LowBits(it.buff) = 2 =>
         out.ec = success /\ out.size = (it.buff - 2) \div 4 + 1
    /\ LowBits(it.buff) = 3 =>
         /\ out.ec = success
         /\ out.size = IF it.word + 12 < Max32 THEN it.word + 12
                       ELSE it.word + 12 - Max32
    /\ LowBits(it.buff) \in {0, 1} =>
         out.ec = parse_failed /\ out.size = it.size

\* A fat header: byte 0x13, code size 100.
C18_Witness ==
  /\ out.op = "getMethodSize"
  /\ it.buff = 19
  /\ it.word = 100
  /\ out.ec = success
  /\ out.size = 112


-----------------------------------------------------------------------------
(* Section contents.                                                       *)

\* What getSectionContents is to return for section I when its raw data
\* lies in the buffer, and parse_failed when not.
ContentsInBuffer(I) ==
  IF SectionAt(I).PointerToRawData + SectionAt(I).SizeOfRawData
       <= img.bufSize
  THEN /\ out.ec = success
       /\ out.Res.start = SectionAt(I).PointerToRawData
       /\ out.Res.size = SectionAt(I).SizeOfRawData
  ELSE out.ec = parse_failed

\* C19 as stated: every section of a constructed object has
\* PointerToRawData + SizeOfRawData <= buffer size, and getSectionContents
\* succeeds only with a range inside the buffer and returns parse_failed
\* otherwise.
C19_RawDataInBufferAsStated ==
  /\ Constructed =>
       \A I \in 1..NumSections :
         SectionAt(I).PointerToRawData + SectionAt(I).SizeOfRawData
           <= img.bufSize
  /\ out.op = "getSectionContents" => ContentsInBuffer(out.Sec)

\* The part of C19 about getSectionContents alone: it succeeds, with the
\* range [PointerToRawData, PointerToRawData + SizeOfRawData), exactly for
\* the sections whose range lies inside the buffer, and returns
\* parse_failed for the others, which a constructed object can have.
C19_SectionContents ==
  out.op = "getSectionContents" => ContentsInBuffer(out.Sec)

\* A constructed object has a section whose raw data lies outside the
\* buffer, and getSectionContents refused it.
C19_Witness ==
  /\ Constructed
  /\ out.op = "getSectionContents"
  /\ SectionAt(out.Sec).PointerToRawData > img.bufSize
  /\ out.ec = parse_failed


-----------------------------------------------------------------------------
(* Section alignment.                                                      *)

\* The alignment field of the section a reference refers to.
AlignField(Ref) == SectionDeref(obj, Ref).Characteristics.Align

\* C20: for every section getSectionAlignment returns 1 << (f - 1), f being
\* the 4-bit alignment field of its Characteristics, and the result is a
\* well-defined positive power of two for every f in 0..15.
C20_SectionAlignment ==
  (out.op = "getSectionAlignment" /\ out.Ref # NULL) =>
    /\ AlignField(out.Ref) \in 0..15
    /\ out.ec = success
    /\ out.defined
    /\ out.Res = Pow2(AlignField(out.Ref) - 1)
    /\ out.Res.pow2 /\ out.Res.exp \in 0..63

\* The same for the sections whose alignment field is not 0.
C20_NonZeroField ==
  (out.op = "getSectionAlignment" /\ out.Ref # NULL
     /\ AlignField(out.Ref) # 0) =>
    /\ out.ec = success
    /\ out.defined
    /\ out.Res = Pow2(AlignField(out.Ref) - 1)
    /\ out.Res.exp \in 0..14

-----------------------------------------------------------------------------
(* Sections by number.                                                     *)

\* The I-th section (1-based) of an iteration from section_begin() to
\* section_end(), NULL when the iteration has fewer.
IterationSection(I) ==
  IF I \in 1..((section_end - section_begin) \div SizeofCoffSection)
  THEN section_begin + (I - 1) * SizeofCoffSection
  ELSE NULL

\* C21: getSection(Index) returns success with no section for UNDEFINED,
\* ABSOLUTE and DEBUG; for every Index in 1..NumberOfSections it returns the
\* section at position Index - 1 of the section iteration, whose name is
\* that of the section; for every other Index it returns parse_failed.
C21_SectionByNumber ==
  out.op = "getSection" =>
    IF out.Index \in {IMAGE_SYM_UNDEFINED, IMAGE_SYM_ABSOLUTE, IMAGE_SYM_DEBUG}
    THEN out.ec = success /\ out.Result = NULL
    ELSE IF out.Index \in 1..img.NumberOfSections
    THEN /\ out.ec = success
         /\ IterationSection(out.Index) # NULL
         /\ out.Result = IterationSection(out.Index)
         /\ getSectionName(obj, SectionDeref(obj, out.Result))
              = getSectionName(obj, SectionAt(out.Index))
    ELSE out.ec = parse_failed

\* The same, for every file that is not an import library.
C21_NotImportLibrary ==
  ~isImportLibrary => C21_SectionByNumber

-----------------------------------------------------------------------------
(* The PE signature.                                                       *)

\* The constructor is past the search for the PE signature in a buffer that
\* begins with "MZ" and holds the offset at 0x3C.
PastLocatePE ==
  img.MZ /\ checkSize(DosStubSize) /\ pc \notin {"checkSize", "locatePE"}

\* C27: when the buffer begins with "MZ", the 4 bytes compared with "PE\0\0"
\* at the offset read from 0x3C lie inside the buffer: if that offset + 4
\* exceeds the buffer size, construction fails with an error and nothing
\* past the buffer end is read; a mismatching signature inside the buffer
\* fails with parse_failed.
C27_PESignatureInBuffer ==
  PastLocatePE =>
    IF OutOfBuffer(img.NewExeOff, 4)
    THEN /\ pc \in {"ctorReturn", "done"}
         /\ stageErr # success
         /\ ~ub
    ELSE ~img.PESig => /\ pc \in {"ctorReturn", "done"}
                       /\ stageErr = parse_failed

\* The same, for the buffers that hold the 4 bytes at the offset.
C27_SignatureInsideBuffer ==
  ~OutOfBuffer(img.NewExeOff, 4) => C27_PESignatureInBuffer

-----------------------------------------------------------------------------
(* Strings of the string table.                                            *)

\* The offset asked for lies below n.
OffsetBelow(n) == out.Offset.hi = 0 /\ out.Offset.lo < n

\* C30: getString(Offset) returns parse_failed when StringTableSize <= 4,
\* unexpected_eof when Offset >= StringTableSize, and otherwise success with
\* the NUL-terminated string that starts at Offset and ends inside the
\* table; every string it returns starts at or after the 4-byte length
\* prefix.
C30_GetString ==
  out.op = "getString" =>
    /\ IF obj.StringTableSize <= 4 THEN out.ec = parse_failed
       ELSE IF ~OffsetBelow(obj.StringTableSize)
       THEN out.ec = unexpected_eof
       ELSE /\ out.ec = success
            /\ out.Res = StringAt(obj.StringTable + out.Offset.lo)
            /\ img.StrTabLastNul
    /\ out.ec = success => ~OffsetBelow(SizeofULittle32)

\* The same, without the last clause.
C30_GetStringResult ==
  (out.op = "getString" /\ OffsetBelow(SizeofULittle32)
     /\ out.ec = success) \/ C30_GetString

-----------------------------------------------------------------------------
(* CLI metadata tables.                                                    *)

\* The object has a parsed metadata root.
HasMetadata == obj.MetadataHeader # NullMetadataHeader

\* The tables header of the object, and the number of bits set in Valid
\* below bit k.
MetaTablesOf == obj.MetadataHeader.MetaTables
RankInValid(k) == Cardinality({ j \in MetaTablesOf.Valid : j < k })

\* C22: after metadata parsing, the row count recorded for every supported
\* table whose bit is set in Valid is Rows[r], r being the number of bits
\* set in Valid below its bit; every supported table whose bit is clear has
\* row count 0 and no pointer.
C22_RowCountByRank ==
  HasMetadata =>
    \A k \in SupportedTables :
      IF k \in MetaTablesOf.Valid
      THEN MetaTablesOf.tablePtr[k].size
             = MetaTablesOf.Rows[RankInValid(k) + 1]
      ELSE MetaTablesOf.tablePtr[k] = [ptr |-> NULL, size |-> 0]

\* The same, when every table present is a supported one.
C22_SupportedOnly ==
  (HasMetadata /\ MetaTablesOf.Valid \subseteq SupportedTables)
    => C22_RowCountByRank

\* Where the row array of the #~ stream ends: 24 bytes of header and one
\* 32-bit word per bit of Valid after the start of the stream.
RowArrayEnd ==
  obj.MetadataHeader.MetadataInitPtr
    + obj.MetadataHeader.StreamHeaders[
        FindTablesStream(0, obj.MetadataHeader.StreamHeaders) + 1].offset
    + 24 + 4 * Cardinality(MetaTablesOf.Valid)

\* The bytes of the records of the supported tables present from table j
\* up to, and without, table k.
RECURSIVE RecordBytes(_, _)
RecordBytes(j, k) ==
  IF j >= k THEN 0
  ELSE (IF j \in SupportedTables \cap MetaTablesOf.Valid
        THEN MetaTablesOf.Rows[RankInValid(j) + 1] * RecordSize(j)
        ELSE 0) + RecordBytes(j + 1, k)

\* C23: exactly popcount(Valid) row counts are read after the Sorted
\* bitmap, and the pointer recorded for each supported table present is the
\* end of the row array plus the sum of row count x record size of the
\* supported tables present before it, the record sizes being 10, 6, 14,
\* 14, 6, 2 and 20 bytes.
C23_TableLayout ==
  HasMetadata =>
    /\ Len(MetaTablesOf.Rows) = Cardinality(MetaTablesOf.Valid)
    /\ \A k \in SupportedTables \cap MetaTablesOf.Valid :
         MetaTablesOf.tablePtr[k].ptr = RowArrayEnd + RecordBytes(0, k)

\* The same, when every table present is a supported one.
C23_SupportedOnly ==
  (HasMetadata /\ MetaTablesOf.Valid \subseteq SupportedTables)
    => C23_TableLayout

-----------------------------------------------------------------------------
(* The #~ stream.                                                          *)

\* The stream headers of the root that are named "#~" (0-based).
TablesStreams ==
  { i \in 0..(img.Meta.Streams - 1) : StreamAt(i).name = TablesStreamName }

\* The header of the #~ stream was parsed where stream i says: the bitmap
\* and the row counts are those of the buffer, and the first table lies
\* behind the row array that starts 24 bytes after
\* metadata root + stream.offset.
ParsedAt(i) ==
  /\ MetaTablesOf.Valid = img.Meta.Valid
  /\ MetaTablesOf.Rows = [n \in 1..Cardinality(img.Meta.Valid) |-> RowAt(n - 1)]
  /\ 0 \in img.Meta.Valid =>
       MetaTablesOf.tablePtr[0].ptr =
         obj.MetadataHeader.MetadataInitPtr + StreamAt(i).offset + 24
           + 4 * Cardinality(img.Meta.Valid)

\* C24: the #~ tables header is parsed, at metadata root + stream.offset,
\* if and only if the stream directory has a stream named "#~"; if it has
\* none, construction still succeeds, no table pointer is set and every
\* supported table has row count 0.
C24_TablesStream ==
  HasMetadata =>
    IF TablesStreams # {}
    THEN \E i \in TablesStreams : ParsedAt(i)
    ELSE /\ MetaTablesOf = NullMetaTables
         /\ stageErr = success
         /\ pc = "done" => ret = "image"

\* The same, when no stream named "#~" has offset 0.
C24_NonZeroOffset ==
  (\A i \in TablesStreams : StreamAt(i).offset # 0) => C24_TablesStream

-----------------------------------------------------------------------------
(* Reads of the CLI initialisation.                                        *)

\* C26: during CLI initialisation every byte read (the CLI header, the
\* metadata root, the stream headers, the #~ header, the bitmaps and the
\* row counts) lies inside the buffer; an image whose CLI structures extend
\* past the end of the buffer fails with unexpected_eof or parse_failed
\* instead of being read.
C26_CliReadsInBuffer ==
  pc = "clrHeader" => ~initCLRHeaderPtr(obj).ub

\* The same for the images whose metadata root, stream headers, tables
\* header and row counts lie inside the buffer.
C26_WhenInsideBuffer ==
  (pc = "clrHeader" /\ img \in MetaImages /\ img.bufSize = 600
     /\ \A i \in TablesStreams : StreamAt(i).offset <= 100)
    => ~initCLRHeaderPtr(obj).ub

-----------------------------------------------------------------------------
(* Positions in the metadata root.                                         *)

\* n rounded up to a multiple of 4.
RoundUp4(n) == ((n + 3) \div 4) * 4

\* Where the i-th stream header (0-based) starts when the first starts at
\* first: each takes 8 bytes and its name with the NUL, padded to 4.
RECURSIVE HeaderStart(_, _)
HeaderStart(i, first) ==
  IF i = 0 THEN first
  ELSE HeaderStart(i - 1, first) + 8
         + RoundUp4(Len(StreamAt(i - 1).name) + 1)

\* The root as recorded, when the Length field that follows the 12 bytes of
\* signature, versions and reserved field is w bytes wide.
RootLayout(w) ==
  LET MH == obj.MetadataHeader
      Root == MH.MetadataInitPtr
      First == Root + 12 + w + RoundUp4(MH.Length) + 4
  IN /\ MH.Length = img.Meta.Length
     /\ MH.Version = Root + 12 + w
     /\ MH.Streams = img.Meta.Streams
     /\ Len(MH.StreamHeaders) = MH.Streams
     /\ \A i \in 0..(MH.Streams - 1) :
          /\ MH.StreamHeaders[i + 1].name = HeaderStart(i, First) + 8
          /\ MH.StreamHeaders[i + 1].offset = StreamAt(i).offset
          /\ MH.StreamHeaders[i + 1].size = StreamAt(i).size

\* C28 as stated: the version string takes round_up_4(Length) bytes right
\* after the 16-bit Length field, flags and the stream count follow it, and
\* exactly Streams stream headers are read, each 8 +
\* round_up_4(strlen(name) + 1) bytes after the one before; each recorded
\* header holds the offset, size and name found at its position.
C28_RootPositionsAsStated == HasMetadata => RootLayout(2)

\* C28, amended: Length is the low 16 bits of a field of 4 bytes, so the
\* version string starts 16 bytes after the start of the root; the rest as
\* stated.
C28_RootPositions == HasMetadata => RootLayout(4)

\* A root with a version of 10 bytes and two streams, "#Strings" and "#~":
\* the name of the second was found 8 + 12 + 8 bytes after the first
\* header, which starts 16 + 12 + 4 bytes after the root.
C28_Witness ==
  /\ Constructed
  /\ HasMetadata
  /\ obj.MetadataHeader.Length = 10
  /\ obj.MetadataHeader.Streams = 2
  /\ Len(StreamAt(0).name) = 8
  /\ obj.MetadataHeader.StreamHeaders[2].name
       = obj.MetadataHeader.MetadataInitPtr + 32 + 28

-----------------------------------------------------------------------------
(* Unsupported tables.                                                     *)

\* C29: if any bit of Valid other than those of the seven supported tables
\* is set, the table setup aborts with an assertion; it never completes
\* with table pointers and row counts recorded for such an image.
C29_UnsupportedAborts ==
  HasMetadata => MetaTablesOf.Valid \subseteq SupportedTables

\* What holds instead: a build with assertions never completes the setup
\* for an image with one of the tables it asserts on.
C29_AssertedTables ==
  (HasMetadata /\ ~NDEBUG) => MetaTablesOf.Valid \cap AssertedTables = {}

-----------------------------------------------------------------------------
(* Queries do not change the object.                                       *)

====
